---- MODULE Spec2Model ----
(***************************************************************************)
(* nvim-mcp: the connection registry of NeovimMcpServer (a DashMap from    *)
(* connection id to NeovimClient), the id scheme built on the BLAKE3 hex   *)
(* digest of the target, and the single-session NeovimClient.              *)
(*                                                                         *)
(* Spec       : the server; every tool call is one step.                   *)
(* RequestSpec: Spec and the connection-scoped tools.                      *)
(* ClientSpec : one NeovimClient used directly (connect_path, connect_tcp, *)
(*              disconnect), as the client integration tests use it.       *)
(* ConfigSpec : ServerConfig's path resolution and find_get_all_targets    *)
(*              over a filesystem that changes under them.                 *)
(* ConcSpec   : tool calls of concurrent tasks, one step per registry      *)
(*              access or await point.                                     *)
(* BridgeSpec : the language bridge (document resolution, the scripts'     *)
(*              result envelope, organize-imports, rename) over a registry *)
(*              and a filesystem that change.                              *)
(* ResourceSpec: Spec and the resources (list_resources, read_resource of  *)
(*              nvim-connections://).                                      *)
(* HandlerSpec: Spec and the handler of the messages the editors send.     *)
(***************************************************************************)
EXTENDS Integers, Sequences, FiniteSets, TLC

VARIABLES
    b3,            \* the digest function: target -> hex digest (fixed at Init)
    socket_mode,   \* NeovimMcpServer.socket_mode
    socket_path,   \* NeovimMcpServer.socket_path
    nvim_clients,  \* NeovimMcpServer.nvim_clients: set of [id, client] entries
    running,       \* background io tasks that are spawned and not aborted
    nextTask,      \* number of the next task tokio::spawn creates
    client,        \* the NeovimClient of ClientSpec
    last,          \* the last call: operation, arguments, outcome, steps taken
    fs,            \* the filesystem: set of [path, kind] entries
    config,        \* the last call of ServerConfig / find_get_all_targets
    shard,         \* DashMap: the shard (one RwLock each) a key hashes to
    calls,         \* the tool calls in progress, one per caller task
    started,       \* number of tool calls the concurrent tasks have started
    workers,       \* number of worker threads of the runtime (fixed at Init)
    bridge         \* the last language-bridge or resource call and its outcome

vars == <<b3, socket_mode, socket_path, nvim_clients, running, nextTask,
          client, last, fs, config, shard, calls, started, bridge>>

config_vars == <<fs, config>>
conc_vars == <<shard, calls, started, workers>>
bridge_vars == <<bridge>>

-----------------------------------------------------------------------------
(* Bounds and program constants *)

\* let id_length = 7;
IdLength == 7

\* The model's digest is IdLength + ExtraWindows characters long, so the
\* slice window has ExtraWindows + 1 positions (BLAKE3 hex has 64 - 7 + 1).
ExtraWindows == 2

\* Number of sessions (background tasks) one run may create.
MaxSessions == 3

\* Number of tool calls the concurrent tasks of one run may start.
MaxCalls == 3
MaxWorkers == 2

HashLen == IdLength + ExtraWindows

PathTargets == {"/tmp/a.sock", "/tmp/b.sock"}
TcpTargets == {"127.0.0.1:6666"}
Targets == PathTargets \cup TcpTargets

\* An id no digest produces (the tests' "invalid_connection_id").
InvalidId == <<"x">>

-----------------------------------------------------------------------------
(* Option values *)

None == <<>>
Some(x) == <<x>>
IsSome(o) == o # <<>>

Max(a, b) == IF a > b THEN a ELSE b

-----------------------------------------------------------------------------
(* Digests *)

Rep(c, n) == [i \in 1..n |-> c]

\* The digest functions the model draws from; distinct targets have distinct
\* full digests. In the first, two targets share their first window and the
\* third shares no window with them; in the second, the first window of one
\* target is a shifted window of another.
CollidingPrefixes ==
    [t \in Targets |->
        CASE t = "/tmp/a.sock" -> Rep("a", HashLen)
          [] t = "/tmp/b.sock" -> Rep("a", HashLen - 1) \o <<"b">>
          [] OTHER -> Rep("c", HashLen)]

ShiftedWindows ==
    [t \in Targets |->
        CASE t = "/tmp/a.sock" -> Rep("a", HashLen)
          [] t = "/tmp/b.sock" -> <<"b">> \o Rep("a", HashLen - 1)
          [] OTHER -> Rep("a", HashLen - 1) \o <<"b">>]

Prefix == <<"1", "2", "3", "4", "5", "6", "7">>

\* Digests whose windows all differ: two targets share the first window
\* only, and the second window of the third is that first window.
DistinctWindows ==
    [t \in Targets |->
        CASE t = "/tmp/a.sock" -> Prefix \o Rep("0", ExtraWindows)
          [] t = "/tmp/b.sock" -> Prefix \o Rep("8", ExtraWindows)
          [] OTHER -> <<"0">> \o Prefix \o Rep("9", ExtraWindows - 1)]

DigestTables == {CollidingPrefixes, ShiftedWindows, DistinctWindows}

\* Every other input has a digest of its own.
b3sum(input) == IF input \in DOMAIN b3 THEN b3[input] ELSE Rep("f", HashLen)

Window(full_hash, start) == SubSeq(full_hash, start + 1, start + IdLength)

LastStart(full_hash) == Max(0, Len(full_hash) - IdLength)

-----------------------------------------------------------------------------
(* Errors *)

NoError == [kind |-> "", why |-> ""]
ConnectionError(why) == [kind |-> "Connection", why |-> why]
ApiError(why) == [kind |-> "Api", why |-> why]

\* impl From<NeovimError> for McpError
McpErrorFrom(err) ==
    CASE err.kind = "Connection" -> [code |-> "invalid_request", why |-> err.why]
      [] err.kind = "Lsp" ->
             [code |-> "invalid_request",
              why |-> <<"LSP Error: ", err.code, ", ", err.why>>]
      [] OTHER -> [code |-> "internal_error", why |-> err.why]

-----------------------------------------------------------------------------
(* NeovimClient *)

NeovimClient_new == [connection |-> None]

NeovimClient_target(c) ==
    IF IsSome(c.connection) THEN Some(c.connection[1].target) ELSE None

\* connect_path and connect_tcp differ in the transport only: `up` says
\* whether create::new_path / create::new_tcp reached an editor, `k` is the
\* task tokio::spawn creates for the io handler.
ConnectWithoutGuard(c, target, up, k) ==
    IF up
    THEN [client |-> [connection |-> Some([target |-> target, task |-> k])],
          ok |-> TRUE, err |-> NoError, attempted |-> TRUE, spawned |-> k]
    ELSE [client |-> c, ok |-> FALSE, err |-> ConnectionError("ConnectionFailed"),
          attempted |-> TRUE, spawned |-> 0]

ConnectWith(c, target, up, k) ==
    IF IsSome(c.connection)
    THEN [client |-> c, ok |-> FALSE, err |-> ConnectionError("AlreadyConnected"),
          attempted |-> FALSE, spawned |-> 0]
    ELSE IF up
    THEN [client |-> [connection |-> Some([target |-> target, task |-> k])],
          ok |-> TRUE, err |-> NoError, attempted |-> TRUE, spawned |-> k]
    ELSE [client |-> c, ok |-> FALSE, err |-> ConnectionError("ConnectionFailed"),
          attempted |-> TRUE, spawned |-> 0]

\* A unix socket (named pipe) is reached by path, a TCP editor by address.
NeovimClient_connect_path(c, path, up, k) ==
    ConnectWith(c, path, up /\ path \in PathTargets, k)

NeovimClient_connect_tcp(c, address, up, k) ==
    ConnectWith(c, address, up /\ address \in TcpTargets, k)

DisconnectKeepSession(c) ==
    IF IsSome(c.connection)
    THEN [client |-> c, ok |-> TRUE, target |-> c.connection[1].target,
          aborted |-> 0, err |-> NoError]
    ELSE [client |-> c, ok |-> FALSE, target |-> "", aborted |-> 0,
          err |-> ConnectionError("NotConnected")]

\* self.connection.take(); io_handler.abort()
NeovimClient_disconnect(c) ==
    IF IsSome(c.connection)
    THEN [client |-> [connection |-> None], ok |-> TRUE,
          target |-> c.connection[1].target,
          aborted |-> c.connection[1].task, err |-> NoError]
    ELSE [client |-> c, ok |-> FALSE, target |-> "", aborted |-> 0,
          err |-> ConnectionError("NotConnected")]

-----------------------------------------------------------------------------
(* DashMap *)

DashGet(m, k) == {e \in m : e.id = k}

InsertKeepOld(m, k, v) == m \cup {[id |-> k, client |-> v]}

DashInsert(m, k, v) == {e \in m : e.id # k} \cup {[id |-> k, client |-> v]}

RemoveNothing(m, k) == m

DashRemove(m, k) == {e \in m : e.id # k}

\* get_mut: the client stored under k is changed in place.
DashUpdate(m, k, v) == {IF e.id = k THEN [e EXCEPT !.client = v] ELSE e : e \in m}

Keys(m) == {e.id : e \in m}

-----------------------------------------------------------------------------
(* Session operations of NeovimClient; `reply` is the editor's answer *)

Replies == {"ok", "error"}

\* [ok, err, sent]: sent says whether an RPC request went to the editor.
execute_lua(c, reply) ==
    IF ~IsSome(c.connection)
    THEN [ok |-> FALSE, err |-> ConnectionError("NotConnected"), sent |-> FALSE]
    ELSE IF reply = "ok"
    THEN [ok |-> TRUE, err |-> NoError, sent |-> TRUE]
    ELSE [ok |-> FALSE, err |-> ApiError("CallFailed"), sent |-> TRUE]

\* get_buffers runs execute_lua and reports each of its errors as Api.
get_buffers(c, reply) ==
    LET r == execute_lua(c, reply)
    IN  IF r.ok THEN r ELSE [r EXCEPT !.err = ApiError(r.err.why)]

get_diagnostics(c, reply) == execute_lua(c, reply)

lsp_get_clients(c, reply) == execute_lua(c, reply)

setup_diagnostics_changed_autocmd(c, reply) == execute_lua(c, reply)

-----------------------------------------------------------------------------
(* NeovimMcpServer *)

is_locked_mode == socket_mode = "SingleFile"

AutoTargetInEveryMode == Some(socket_path)

get_auto_connection_target == IF is_locked_mode THEN Some(socket_path) ELSE None

RECURSIVE ProbeSkippingOwn(_, _, _)
ProbeSkippingOwn(target, full_hash, start) ==
    IF start > LastStart(full_hash) THEN full_hash
    ELSE IF DashGet(nvim_clients, Window(full_hash, start)) # {}
         THEN ProbeSkippingOwn(target, full_hash, start + 1)
         ELSE Window(full_hash, start)

\* for start in 0..=(full_hash.len().saturating_sub(id_length))
RECURSIVE Probe(_, _, _)
Probe(target, full_hash, start) ==
    IF start > LastStart(full_hash) THEN full_hash
    ELSE LET candidate == Window(full_hash, start)
             existing == DashGet(nvim_clients, candidate)
         IN  IF existing # {}
             THEN IF \E e \in existing : NeovimClient_target(e.client) = Some(target)
                  THEN candidate
                  ELSE Probe(target, full_hash, start + 1)
             ELSE candidate

FirstWindowOnly(target) == Window(b3sum(target), 0)

generate_shorter_connection_id(target) == Probe(target, b3sum(target), 0)

NotFound == [code |-> "invalid_request", why |-> "NotFound"]

\* [found, client]
get_connection(connection_id) ==
    LET existing == DashGet(nvim_clients, connection_id)
    IN  IF existing = {} THEN [found |-> FALSE, client |-> NeovimClient_new]
        ELSE [found |-> TRUE, client |-> (CHOOSE e \in existing : TRUE).client]

Step(ev, n) == [ev |-> ev, n |-> n]

Call(op, target, id, ok, code, why, steps) ==
    [op |-> op, target |-> target, id |-> id, ok |-> ok, code |-> code,
     why |-> why, steps |-> steps]

\* The body shared by the connect and connect_tcp tools and by
\* initialize_auto_connection: `con` is the outcome of connect_path or
\* connect_tcp on a new client, `hook_fatal` whether a failed hook
\* registration ends the call (the tools' `?`) or is only logged.
ConnectOrReplace(op, target, con, hook_reply, hook_fatal) ==
    LET connection_id == generate_shorter_connection_id(target)
        old == get_connection(connection_id)
        dis == NeovimClient_disconnect(old.client)
        m1 == IF old.found
              THEN DashUpdate(nvim_clients, connection_id, dis.client)
              ELSE nvim_clients
        r1 == IF old.found THEN running \ {dis.aborted} ELSE running
        s1 == IF old.found THEN <<Step("disconnect_old", dis.aborted)>> ELSE <<>>
        s2 == s1 \o <<Step("attempt", con.spawned)>>
        hook == setup_diagnostics_changed_autocmd(con.client, hook_reply)
        s3 == s2 \o <<Step("hook", con.spawned)>>
    IN  IF ~con.ok
        THEN [clients |-> m1, running |-> r1, nextTask |-> nextTask,
              last |-> Call(op, target, connection_id, FALSE,
                            McpErrorFrom(con.err).code, con.err.why, s2)]
        ELSE IF ~hook.ok /\ hook_fatal
        THEN [clients |-> m1, running |-> r1 \cup {con.spawned},
              nextTask |-> nextTask + 1,
              last |-> Call(op, target, connection_id, FALSE,
                            McpErrorFrom(hook.err).code, "HookFailed", s3)]
        ELSE [clients |-> DashInsert(m1, connection_id, con.client),
              running |-> r1 \cup {con.spawned},
              nextTask |-> nextTask + 1,
              last |-> Call(op, target, connection_id, TRUE, "", "",
                            s3 \o <<Step("insert", con.spawned)>>)]

Apply(out) ==
    /\ nvim_clients' = out.clients
    /\ running' = out.running
    /\ nextTask' = out.nextTask
    /\ last' = out.last
    /\ UNCHANGED <<config_vars, conc_vars, bridge_vars,
                   b3, socket_mode, socket_path, client>>

\* `up`: whether an editor accepts the connection; `hook_reply`: its answer
\* to the hook registration.
connect(path, up, hook_reply) ==
    /\ nextTask <= MaxSessions
    /\ Apply(ConnectOrReplace("connect", path,
                 NeovimClient_connect_path(NeovimClient_new, path, up, nextTask),
                 hook_reply, TRUE))

connect_tcp(address, up, hook_reply) ==
    /\ nextTask <= MaxSessions
    /\ Apply(ConnectOrReplace("connect_tcp", address,
                 NeovimClient_connect_tcp(NeovimClient_new, address, up, nextTask),
                 hook_reply, TRUE))

initialize_auto_connection(up, hook_reply) ==
    /\ nextTask <= MaxSessions
    /\ IF IsSome(get_auto_connection_target)
       THEN Apply(ConnectOrReplace("initialize_auto_connection", socket_path,
                      NeovimClient_connect_path(NeovimClient_new, socket_path,
                                                up, nextTask),
                      hook_reply, FALSE))
       ELSE /\ last' = Call("initialize_auto_connection", "", None, TRUE, "", "", <<>>)
            /\ UNCHANGED <<config_vars, conc_vars, bridge_vars,
                           b3, socket_mode, socket_path, nvim_clients, running, nextTask, client>>

\* The disconnect tool.
disconnect(connection_id) ==
    LET found == get_connection(connection_id)
        target == IF IsSome(NeovimClient_target(found.client))
                  THEN NeovimClient_target(found.client)[1] ELSE "Unknown"
        dis == NeovimClient_disconnect(found.client)
    IN  IF ~found.found
        THEN /\ last' = Call("disconnect", "", connection_id, FALSE,
                             NotFound.code, NotFound.why, <<>>)
             /\ UNCHANGED <<config_vars, conc_vars, bridge_vars,
                            b3, socket_mode, socket_path, nvim_clients, running, nextTask, client>>
        ELSE /\ nvim_clients' = DashRemove(nvim_clients, connection_id)
             /\ running' = running \ {dis.aborted}
             /\ last' = IF dis.ok
                        THEN Call("disconnect", target, connection_id, TRUE, "", "",
                                  <<Step("disconnect", dis.aborted)>>)
                        ELSE Call("disconnect", target, connection_id, FALSE,
                                  "internal_error", "DisconnectFailed",
                                  <<Step("disconnect", dis.aborted)>>)
             /\ UNCHANGED <<config_vars, conc_vars, bridge_vars,
                            b3, socket_mode, socket_path, nextTask, client>>

ScopedTools == {"list_buffers", "exec_lua", "buffer_diagnostics", "lsp_clients"}

\* The client method each tool calls.
ToolMethod(tool) ==
    CASE tool = "list_buffers" -> "get_buffers"
      [] tool = "exec_lua" -> "execute_lua"
      [] tool = "buffer_diagnostics" -> "get_buffer_diagnostics"
      [] tool = "lsp_clients" -> "lsp_get_clients"

SessionMethods == {ToolMethod(t) : t \in ScopedTools}

SessionCall(method, c, reply) ==
    CASE method = "get_buffers" -> get_buffers(c, reply)
      [] method = "execute_lua" -> execute_lua(c, reply)
      [] method = "get_buffer_diagnostics" -> get_diagnostics(c, reply)
      [] method = "lsp_get_clients" -> lsp_get_clients(c, reply)

RequestIgnoringLookup(op, connection_id, reply) ==
    Call(op, "", connection_id, TRUE, "", "", <<Step("rpc", 0)>>)

\* let client = self.get_connection(&connection_id)?; client.<op>().await?
Request(op, connection_id, reply) ==
    LET found == get_connection(connection_id)
        r == SessionCall(ToolMethod(op), found.client, reply)
        steps == IF r.sent THEN <<Step("rpc", found.client.connection[1].task)>>
                 ELSE <<>>
    IN  IF ~found.found
        THEN Call(op, "", connection_id, FALSE, NotFound.code, NotFound.why, <<>>)
        ELSE IF r.ok
        THEN Call(op, "", connection_id, TRUE, "", "", steps)
        ELSE Call(op, "", connection_id, FALSE, McpErrorFrom(r.err).code,
                  r.err.why, steps)

tool_request(op, connection_id, reply) ==
    /\ last' = Request(op, connection_id, reply)
    /\ UNCHANGED <<config_vars, conc_vars, bridge_vars,
                   b3, socket_mode, socket_path, nvim_clients, running, nextTask, client>>

-----------------------------------------------------------------------------
(* The filesystem and ServerConfig *)

\* A path is the sequence of the pieces of its string; "/" is the separator.
Tmp == <<"/", "tmp">>
Sock1 == Tmp \o <<"/", "nvim-mcp", ".", "1", ".", "sock">>
SockPlain == Tmp \o <<"/", "nvim-mcp", ".", "sock">>
SubDir == Tmp \o <<"/", "nvim-mcp", ".", "d">>
SockInSub == SubDir \o <<"/", "x", ".", "sock">>
Home == <<"/", "home">>

\* What may exist at each path of the model's filesystem. A "socket" is
\* neither a regular file nor a directory.
MayBe ==
    [path \in {Sock1} |-> {"socket", "file"}]
        @@ [path \in {SockPlain, SockInSub} |-> {"socket"}]
        @@ [path \in {SubDir, Home, Home \o <<"/", ".cache", "/", "nvim">>,
                      Home \o <<"/", ".cache", "/", "nvim", "/", "rpc">>} |-> {"dir"}]
        @@ [path \in {Home \o <<"/", ".cache">>} |-> {"dir", "file"}]

Paths == DOMAIN MayBe

Kind(f, path) ==
    IF path = Tmp THEN "dir"
    ELSE IF \E e \in f : e.path = path THEN (CHOOSE e \in f : e.path = path).kind
    ELSE "absent"

exists(f, path) == Kind(f, path) # "absent"
is_dir(f, path) == Kind(f, path) = "dir"
is_file(f, path) == Kind(f, path) = "file"

\* The directories above a path, nearest last; the root is always there.
Ancestors(path) == {SubSeq(path, 1, i - 1) : i \in {j \in 2..Len(path) : path[j] = "/"}}
    \ {<<>>}

Parent(path) ==
    CHOOSE a \in Ancestors(path) \cup {<<"/">>} :
        \A b \in Ancestors(path) : Len(b) <= Len(a)

\* std::fs::create_dir_all: makes the path and every missing directory above
\* it; fails when something that is not a directory is in the way or the
\* process may not write there.
create_dir_all(f, path, permitted) ==
    LET chain == Ancestors(path) \cup {path}
        blocked == \E a \in chain : Kind(f, a) \notin {"absent", "dir"}
        missing == {a \in chain : Kind(f, a) = "absent"}
    IN  IF blocked \/ (missing # {} /\ ~permitted)
        THEN [ok |-> FALSE, fs |-> f]
        ELSE [ok |-> TRUE,
              fs |-> f \cup {[path |-> a, kind |-> "dir"] : a \in missing}]

Modes == {"Directory", "SingleFile", "GlobPattern"}

\* [ok, err, path, mode, fs]
Resolved(ok, err, path, mode, f) ==
    [ok |-> ok, err |-> err, path |-> path, mode |-> mode, fs |-> f]

\* `home`: the value of HOME (TEMP on Windows), None when it is not set.
default_socket_path(f, home, permitted) ==
    IF ~IsSome(home) THEN Resolved(FALSE, "Environment", <<>>, "", f)
    ELSE LET socket_dir == home[1] \o <<"/", ".cache", "/", "nvim", "/", "rpc">>
             made == create_dir_all(f, socket_dir, permitted)
         IN  IF made.ok THEN Resolved(TRUE, "", socket_dir, "", made.fs)
             ELSE Resolved(FALSE, "Filesystem", <<>>, "", f)

ResolveCreatingDirectory(f, provided, home, permitted) ==
    IF IsSome(provided)
    THEN LET made == create_dir_all(f, provided[1], permitted)
         IN  IF made.ok THEN Resolved(TRUE, "", provided[1], "Directory", made.fs)
             ELSE Resolved(FALSE, "Filesystem", <<>>, "", f)
    ELSE default_socket_path(f, home, permitted)

resolve_socket_path_and_mode(f, provided, home, permitted) ==
    IF IsSome(provided)
    THEN LET path_buf == provided[1]
         IN  IF exists(f, path_buf)
             THEN IF is_dir(f, path_buf)
                  THEN Resolved(TRUE, "", path_buf, "Directory", f)
                  ELSE IF is_file(f, path_buf)
                  THEN Resolved(TRUE, "", path_buf, "SingleFile", f)
                  ELSE Resolved(FALSE, "InvalidPath", <<>>, "", f)
             ELSE Resolved(TRUE, "", path_buf, "GlobPattern", f)
    ELSE LET d == default_socket_path(f, home, permitted)
         IN  IF d.ok THEN [d EXCEPT !.mode = "Directory"] ELSE d

\* let (path, _mode) = Self::resolve_socket_path_and_mode(provided)?; Ok(path)
resolve_socket_path(f, provided, home, permitted) ==
    [resolve_socket_path_and_mode(f, provided, home, permitted) EXCEPT !.mode = ""]

\* glob::Pattern: "*" stands for any run of pieces without a separator,
\* every other piece for itself.
RECURSIVE matches(_, _)
matches(pattern, path) ==
    IF pattern = <<>> THEN path = <<>>
    ELSE IF Head(pattern) = "*"
    THEN \/ matches(Tail(pattern), path)
         \/ path # <<>> /\ Head(path) # "/" /\ matches(pattern, Tail(path))
    ELSE path # <<>> /\ Head(path) = Head(pattern)
             /\ matches(Tail(pattern), Tail(path))

\* An opening bracket that is never closed is a PatternError.
PatternError(pattern) ==
    \E i \in 1..Len(pattern) :
        pattern[i] = "[" /\ \A j \in (i + 1)..Len(pattern) : pattern[j] # "]"

\* glob::glob: [ok, paths], the existing paths the pattern matches.
glob(f, pattern) ==
    IF PatternError(pattern) THEN [ok |-> FALSE, paths |-> {}]
    ELSE [ok |-> TRUE,
          paths |-> {q \in Paths \cup {Tmp} : exists(f, q) /\ matches(pattern, q)}]

FindWithoutExistenceCheck(f, socket_path_, socket_mode_) ==
    IF socket_mode_ = "Directory"
    THEN glob(f, socket_path_ \o <<"/", "nvim-mcp", ".", "*", ".", "sock">>).paths
    ELSE IF socket_mode_ = "SingleFile" THEN {socket_path_}
    ELSE glob(f, socket_path_).paths

\* The targets as a set: the order glob yields them in is not modelled.
find_get_all_targets(f, socket_path_, socket_mode_) ==
    IF socket_mode_ = "Directory"
    THEN LET paths == glob(f, socket_path_ \o <<"/", "nvim-mcp", ".", "*", ".", "sock">>)
         IN  IF paths.ok THEN paths.paths ELSE {}
    ELSE IF socket_mode_ = "SingleFile"
    THEN IF exists(f, socket_path_) THEN {socket_path_} ELSE {}
    ELSE LET paths == glob(f, socket_path_)
         IN  IF paths.ok THEN paths.paths ELSE {}

\* The paths a configuration names: directories, sockets and patterns.
Provided ==
    {Tmp, Sock1, SockPlain, SubDir,
     Tmp \o <<"/", "nvim-mcp", ".", "*", ".", "sock">>,
     Tmp \o <<"/", "*", "/", "*", ".", "sock">>,
     Tmp \o <<"/", "[", "1">>}

NoConfigCall ==
    [op |-> "none", provided |-> None, ok |-> TRUE, err |-> "",
     path |-> Tmp, mode |-> "Directory", targets |-> {}]

-----------------------------------------------------------------------------
(* DashMap shards and the calls in progress *)

Tasks == {"t1", "t2"}

\* Every id of the model: the windows and digests of every table.
Ids ==
    UNION {{Window(tbl[t], st) : t \in Targets, st \in 0..ExtraWindows}
               \cup {tbl[t] : t \in Targets} : tbl \in DigestTables}
        \cup {InvalidId}

\* The hasher is seeded per process, so which keys share a shard differs
\* from run to run: every key in one shard, or split by first character.
OneShard == [id \in Ids |-> "s1"]
SplitShards == [id \in Ids |-> IF id[1] = "c" THEN "s2" ELSE "s1"]
ShardTables == {OneShard, SplitShards}

\* A call in progress: the tool, where it stands, its arguments, the id it
\* works on, the key whose Ref (shard read lock) it holds, and the io task
\* of the session it made or awaits.
Idle == [op |-> "idle", pc |-> "idle", target |-> "", id |-> None,
         guard |-> None, session |-> 0]

-----------------------------------------------------------------------------
(* The language bridge: documents, the editor's answers, decoding *)

\* The files a document reference names; LinkRs is a symbolic link to MainRs.
MainRs == Tmp \o <<"/", "main", ".", "rs">>
LinkRs == Tmp \o <<"/", "link", ".", "rs">>
DocPaths == {MainRs, LinkRs}

\* DocumentIdentifier
BufferId(h) == [variant |-> "BufferId", buffer |-> h, path |-> <<>>]
ProjectRelativePath(p) == [variant |-> "ProjectRelativePath", buffer |-> 0, path |-> p]
AbsolutePath(p) == [variant |-> "AbsolutePath", buffer |-> 0, path |-> p]

Documents ==
    {BufferId(1), ProjectRelativePath(<<"main", ".", "rs">>),
     AbsolutePath(MainRs), AbsolutePath(LinkRs)}

TextDocumentIdentifier(uri, version) == [uri |-> uri, version |-> version]

\* JSON values: the type of the value, the code actions of a list, the
\* workspace edit of a code action or of a rename.
Json(type, actions, edit) == [type |-> type, actions |-> actions, edit |-> edit]
Null == Json("null", <<>>, None)

CodeAction(title, edit) == [title |-> title, edit |-> edit]
HasNoEdit(action) == FALSE

has_edit(action) == IsSome(action.edit)

\* NeovimError::Lsp { code, message }
LspError(code, message) == [kind |-> "Lsp", why |-> message, code |-> code]

\* The editor's answer to one request: the call fails (rpc FALSE) or yields a
\* value of some shape: "number" (not a string), or a string that holds a
\* path, text that is no JSON ("garbage"), a JSON array, a JSON text document
\* identifier ("doc"), or a JSON object with the one key "result", "err_msg"
\* or "err".
EditorReply(rpc, shape, path, doc, value, message, code) ==
    [rpc |-> rpc, shape |-> shape, path |-> path, doc |-> doc, value |-> value,
     message |-> message, code |-> code]

NoDoc == TextDocumentIdentifier(<<>>, None)
CallError == EditorReply(FALSE, "", <<>>, NoDoc, Null, "", 0)
Garbage == EditorReply(TRUE, "garbage", <<>>, NoDoc, Null, "", 0)
PathReply(p) == EditorReply(TRUE, "path", p, NoDoc, Null, "", 0)
NotAString == EditorReply(TRUE, "number", <<>>, NoDoc, Null, "", 0)

\* One request sent to the editor, with the text document identifier or the
\* workspace edit it carries, and the answer to it.
Exchange(script, doc, edit, reply) ==
    [script |-> script, doc |-> doc, edit |-> edit, reply |-> reply]

\* Result<T, NeovimError> of a client method, with the exchanges it made.
Ok(value, log) == [ok |-> TRUE, err |-> NoError, value |-> value, log |-> log]
Err(err, log) == [ok |-> FALSE, err |-> err, value |-> Null, log |-> log]

\* value.as_str().unwrap() on a value that is not a string: the call does
\* not return, the task that runs it unwinds.
Panicked(log) ==
    [ok |-> FALSE, err |-> [kind |-> "Panic", why |-> "unwrap on None"],
     value |-> Null, log |-> log]

Panics(r) == r.err.kind = "Panic"

\* serde: a value of JSON type v.type read as T; Option<T> also reads null.
Type(name, optional) == [name |-> name, optional |-> optional]
Deserializes(v, T) == v.type = T.name \/ (T.optional /\ v.type = "null")

Parsed(ok, variant, value, message, code) ==
    [ok |-> ok, variant |-> variant, value |-> value, message |-> message,
     code |-> code]
ParseError == Parsed(FALSE, "", Null, "", 0)

\* serde_json::from_str::<NvimExecuteLuaResult<T>>
from_str_NvimExecuteLuaResult(reply, T) ==
    CASE reply.shape = "result" ->
             IF Deserializes(reply.value, T)
             THEN Parsed(TRUE, "Ok", reply.value, "", 0) ELSE ParseError
      [] reply.shape = "err_msg" -> Parsed(TRUE, "Error", Null, reply.message, 0)
      [] reply.shape = "err" ->
             Parsed(TRUE, "LspError", Null, reply.message, reply.code)
      [] OTHER -> ParseError

\* impl From<NvimExecuteLuaResult<T>> for Result<T, NeovimError>
into(val, log) ==
    CASE val.variant = "Ok" -> Ok(val.value, log)
      [] val.variant = "Error" -> Err(ApiError(val.message), log)
      [] val.variant = "LspError" -> Err(LspError(val.code, val.message), log)

\* serde_json::from_str::<CodeActionResult>: a struct whose one field,
\* `result`, defaults to the empty list when the object has no such key.
from_str_CodeActionResult(reply) ==
    CASE reply.shape = "result" ->
             IF Deserializes(reply.value, Type("Vec<CodeAction>", FALSE))
             THEN Parsed(TRUE, "Ok", reply.value, "", 0) ELSE ParseError
      [] reply.shape \in {"err_msg", "err", "doc"} ->
             Parsed(TRUE, "Ok", Json("Vec<CodeAction>", <<>>, None), "", 0)
      [] OTHER -> ParseError

\* serde_json::from_str::<TextDocumentIdentifier>
from_str_TextDocumentIdentifier(reply) == reply.shape = "doc"

\* serde_json::from_str::<Vec<Diagnostic>>
from_str_Diagnostics(reply) == reply.shape = "array"

\* Path::canonicalize on the filesystem of the server's process: fails when
\* nothing is at the path, follows a symbolic link to what it names.
canonicalize(f, path) ==
    CASE Kind(f, path) = "absent" -> None
      [] Kind(f, path) = "link" -> IF exists(f, MainRs) THEN Some(MainRs) ELSE None
      [] OTHER -> Some(path)

\* PathBuf::join: an absolute path replaces the base.
join(base, p) == IF p # <<>> /\ p[1] = "/" THEN p ELSE base \o <<"/">> \o p

ResolveAnyPath(f, file_path, log) ==
    Ok(TextDocumentIdentifier(<<"file://">> \o file_path, None), log)

make_text_document_identifier_from_path(f, file_path, log) ==
    LET absolute_path == canonicalize(f, file_path)
    IN  IF ~IsSome(absolute_path)
        THEN Err(ApiError("Failed to resolve path"), log)
        ELSE Ok(TextDocumentIdentifier(<<"file://">> \o absolute_path[1], None), log)

\* What the editor can answer to each request.
BufferDoc == TextDocumentIdentifier(<<"file://">> \o MainRs, Some(1))

Plain == CodeAction("organize", None)
WithEdit == CodeAction("organize", Some("edit"))

\* The answers of a language script: the in-editor call fails, or it returns
\* text that is no envelope, a value that is no string, or one of the three
\* envelopes; {result: v} with the values v the script's request can yield.
ScriptReplies(script) ==
    LET results ==
            CASE script = "lsp_hover.lua" -> {Json("HoverResult", <<>>, None)}
              [] script = "lsp_definition.lua" ->
                     {Null, Json("LocateResult", <<>>, None)}
              [] script \in {"lsp_client_get_code_actions.lua",
                             "lsp_organize_imports.lua"} ->
                     {Json("Vec<CodeAction>", l, None)
                      : l \in {<<>>, <<Plain>>, <<WithEdit>>,
                               <<Plain, CodeAction("other", Some("other edit"))>>}}
              [] script = "lsp_resolve_code_action.lua" ->
                     {Json("CodeAction", <<a>>, None) : a \in {Plain, WithEdit}}
              [] script = "lsp_apply_workspace_edit.lua" -> {Null}
              [] script = "lsp_prepare_rename.lua" ->
                     {Null, Json("PrepareRenameResult", <<>>, None)}
              [] script = "lsp_rename.lua" ->
                     {Null, Json("WorkspaceEdit", <<>>, Some("renamed"))}
    IN  {CallError, Garbage, NotAString,
         EditorReply(TRUE, "err_msg", <<>>, NoDoc, Null, "editor error", 0),
         EditorReply(TRUE, "err", <<>>, NoDoc, Null, "Method not found", 0 - 32601)}
            \cup {EditorReply(TRUE, "result", <<>>, NoDoc, v, "", 0) : v \in results}

NotConnected == ConnectionError("NotConnected")

lsp_make_text_document_params(c, buffer_id) ==
    IF ~IsSome(c.connection) THEN {Err(NotConnected, <<>>)}
    ELSE {LET log == <<Exchange("lsp_make_text_document_params.lua", NoDoc, None, raw)>>
          IN  IF ~raw.rpc
              THEN Err(ApiError("Failed to make text document params"), log)
              ELSE IF raw = NotAString THEN Panicked(log)
              ELSE IF ~from_str_TextDocumentIdentifier(raw)
              THEN Err(ApiError("Failed to parse text document params"), log)
              ELSE Ok(raw.doc, log)
          : raw \in {CallError, Garbage, NotAString,
                     EditorReply(TRUE, "doc", <<>>, BufferDoc, Null, "", 0)}}

get_project_root(c) ==
    IF ~IsSome(c.connection) THEN {Err(NotConnected, <<>>)}
    ELSE {LET log == <<Exchange("return vim.fn.getcwd()", NoDoc, None, value)>>
          IN  IF ~value.rpc
              THEN Err(ApiError("Failed to get working directory"), log)
              \* value.as_str() is None
              ELSE IF value = NotAString
              THEN Err(ApiError("Invalid working directory format"), log)
              ELSE Ok(value.path, log)
          : value \in {CallError, NotAString, PathReply(Tmp), PathReply(Home)}}

ResolveWithoutEditor(c, f, identifier) ==
    {make_text_document_identifier_from_path(f, join(Tmp, identifier.path), <<>>)}

resolve_text_document_identifier(c, f, identifier) ==
    CASE identifier.variant = "BufferId" ->
             lsp_make_text_document_params(c, identifier.buffer)
      [] identifier.variant = "ProjectRelativePath" ->
             {IF project_root.ok
              THEN make_text_document_identifier_from_path(
                       f, join(project_root.value, identifier.path),
                       project_root.log)
              ELSE project_root
              : project_root \in get_project_root(c)}
      [] identifier.variant = "AbsolutePath" ->
             {make_text_document_identifier_from_path(f, identifier.path, <<>>)}

\* get_diagnostics(Some(buffer_id))
get_buffer_diagnostics(c, log) ==
    IF ~IsSome(c.connection) THEN {Err(NotConnected, log)}
    ELSE {LET log2 == Append(log, Exchange("vim.diagnostic.get", NoDoc, None,
                                           diagnostics))
          IN  IF ~diagnostics.rpc
              THEN Err(ApiError("Failed to get diagnostics"), log2)
              ELSE IF diagnostics = NotAString THEN Panicked(log2)
              ELSE IF ~from_str_Diagnostics(diagnostics)
              THEN Err(ApiError("Failed to parse diagnostics"), log2)
              ELSE Ok(diagnostics.value, log2)
          : diagnostics \in
                {CallError, Garbage, NotAString,
                 EditorReply(TRUE, "array", <<>>, NoDoc,
                             Json("Vec<Diagnostic>", <<>>, None), "", 0)}}

\* The part every method shares after it resolved its document: the
\* connection check, one execute_lua of the method's script, the result read
\* as NvimExecuteLuaResult<T> and turned into Result<T, NeovimError>.
execute_script(c, script, text_document, edit, T, log) ==
    IF ~IsSome(c.connection) THEN {Err(NotConnected, log)}
    ELSE {LET log2 == Append(log, Exchange(script, text_document, edit, result))
              d == from_str_NvimExecuteLuaResult(result, T)
          IN  IF ~result.rpc THEN Err(ApiError("CallFailed"), log2)
              ELSE IF result = NotAString THEN Panicked(log2)
              ELSE IF ~d.ok THEN Err(ApiError("ParseFailed"), log2)
              ELSE into(d, log2)
          : result \in ScriptReplies(script)}

ScriptWithoutResolving(c, f, document, script, T) ==
    execute_script(c, script, NoDoc, None, T, <<>>)

\* A method that resolves its document and then runs one script.
document_script(c, f, document, script, T) ==
    UNION {IF text_document.ok
           THEN execute_script(c, script, text_document.value, None, T,
                               text_document.log)
           ELSE {text_document}
           : text_document \in resolve_text_document_identifier(c, f, document)}

lsp_hover(c, f, document) ==
    document_script(c, f, document, "lsp_hover.lua", Type("HoverResult", FALSE))

lsp_definition(c, f, document) ==
    document_script(c, f, document, "lsp_definition.lua", Type("LocateResult", TRUE))

lsp_resolve_code_action(c, code_action, log) ==
    execute_script(c, "lsp_resolve_code_action.lua", NoDoc, code_action.edit,
                   Type("CodeAction", FALSE), log)

lsp_apply_workspace_edit(c, workspace_edit, log) ==
    execute_script(c, "lsp_apply_workspace_edit.lua", NoDoc, Some(workspace_edit),
                   Type("null", FALSE), log)

\* The script's answer is read as CodeActionResult, not as the envelope.
code_actions_script(c, text_document, log) ==
    IF ~IsSome(c.connection) THEN {Err(NotConnected, log)}
    ELSE {LET log2 == Append(log, Exchange("lsp_client_get_code_actions.lua",
                                           text_document, None, actions))
              parsed == from_str_CodeActionResult(actions)
          IN  IF ~actions.rpc THEN Err(ApiError("Failed to get LSP code actions"), log2)
              ELSE IF actions = NotAString THEN Panicked(log2)
              ELSE IF ~parsed.ok THEN Err(ApiError("Failed to parse code actions"), log2)
              ELSE Ok(parsed.value, log2)
          : actions \in ScriptReplies("lsp_client_get_code_actions.lua")}

lsp_get_code_actions(c, f, document) ==
    UNION {IF ~text_document.ok THEN {text_document}
           ELSE IF document.variant = "BufferId"
           THEN UNION {IF diagnostics.ok
                       THEN code_actions_script(c, text_document.value, diagnostics.log)
                       ELSE IF Panics(diagnostics) THEN {diagnostics}
                       ELSE {Err(ApiError("Failed to get diagnostics"), diagnostics.log)}
                       : diagnostics \in get_buffer_diagnostics(c, text_document.log)}
           ELSE code_actions_script(c, text_document.value, text_document.log)
           : text_document \in resolve_text_document_identifier(c, f, document)}

\* NeovimClientTrait methods of the rename and organize-imports tools: each
\* resolves its document, runs its script once and reads the envelope.
lsp_get_organize_imports_actions(c, f, document) ==
    document_script(c, f, document, "lsp_organize_imports.lua",
                    Type("Vec<CodeAction>", FALSE))

lsp_prepare_rename(c, f, document) ==
    document_script(c, f, document, "lsp_prepare_rename.lua",
                    Type("PrepareRenameResult", TRUE))

lsp_rename(c, f, document) ==
    document_script(c, f, document, "lsp_rename.lua", Type("WorkspaceEdit", TRUE))

\* The exchanges of a call that follows the exchanges `log`.
After(log, outcomes) == {[r EXCEPT !.log = log \o r.log] : r \in outcomes}

-----------------------------------------------------------------------------
(* The language tools and the resources of NeovimMcpServer *)

\* McpError as the caller receives it: the text is kept in its pieces.
McpMessage(err) ==
    IF err.kind = "Lsp" THEN McpErrorFrom(err).why ELSE <<McpErrorFrom(err).why>>

\* Display of NeovimError; the text of an Lsp error names its code.
DisplayLsp(err) == <<"LSP error: ", err.code, ", ", err.why>>

Display(err) ==
    CASE err.kind = "Connection" -> <<"Connection error: ", err.why>>
      [] err.kind = "Api" -> <<"API error: ", err.why>>
      [] err.kind = "Lsp" -> DisplayLsp(err)

\* Result<CallToolResult, McpError>, with the client's error behind an
\* McpError and the exchanges the call made.
ToolResult(ok, code, message, err, value, log) ==
    [ok |-> ok, code |-> code, message |-> message, err |-> err, value |-> value,
     log |-> log]

success(text, value, log) == ToolResult(TRUE, "", <<text>>, NoError, value, log)

invalid_request(message, err, log) ==
    ToolResult(FALSE, "invalid_request", message, err, Null, log)

\* The `?` on a client call; a panic unwinds through the tool, which
\* answers with no McpError.
Failed(r) ==
    IF Panics(r) THEN ToolResult(FALSE, "", <<>>, r.err, Null, r.log)
    ELSE ToolResult(FALSE, McpErrorFrom(r.err).code, McpMessage(r.err), r.err,
                    Null, r.log)

ToolNotFound == ToolResult(FALSE, NotFound.code, <<NotFound.why>>, NoError, Null, <<>>)

DocumentTools == {"lsp_hover", "lsp_definition", "lsp_code_actions"}

\* let client = self.get_connection(&connection_id)?;
\* let r = client.<method>(..).await?; Ok(CallToolResult::success(json(r)))
tools_document(op, connection_id, document) ==
    LET found == get_connection(connection_id)
        outcomes ==
            CASE op = "lsp_hover" -> lsp_hover(found.client, fs, document)
              [] op = "lsp_definition" -> lsp_definition(found.client, fs, document)
              [] op = "lsp_code_actions" ->
                     lsp_get_code_actions(found.client, fs, document)
    IN  IF ~found.found THEN {ToolNotFound}
        ELSE {IF r.ok THEN success("json", r.value, r.log) ELSE Failed(r)
              : r \in outcomes}

NoActionsMessage == "No organize imports actions available for this document"

OrganizeEmptyIsError(connection_id, document, apply_edits) ==
    LET client_ == get_connection(connection_id).client
    IN  {IF ~a.ok THEN Failed(a)
         ELSE IF a.value.actions = <<>>
         THEN invalid_request(<<NoActionsMessage>>, NoError, a.log)
         ELSE success("json", a.value, a.log)
         : a \in lsp_get_organize_imports_actions(client_, fs, document)}

tools_lsp_organize_imports(connection_id, document, apply_edits) ==
    LET found == get_connection(connection_id)
        client_ == found.client
        Apply_(resolved) ==
            IF ~resolved.ok THEN {Failed(resolved)}
            ELSE IF ~has_edit(resolved.value.actions[1])
            THEN {invalid_request(
                      <<"Organize imports action does not contain workspace edit">>,
                      NoError, resolved.log)}
            ELSE {IF applied.ok
                  THEN success("Imports organized successfully", Null, applied.log)
                  ELSE Failed(applied)
                  : applied \in lsp_apply_workspace_edit(
                                    client_, resolved.value.actions[1].edit[1],
                                    resolved.log)}
        Resolve_(code_actions) ==
            LET action == code_actions.value.actions[1]
            IN  IF has_edit(action)
                THEN Apply_(Ok(Json("CodeAction", <<action>>, None), code_actions.log))
                ELSE UNION {Apply_(resolved)
                            : resolved \in lsp_resolve_code_action(
                                               client_, action, code_actions.log)}
    IN  IF ~found.found THEN {ToolNotFound}
        ELSE UNION {IF ~code_actions.ok THEN {Failed(code_actions)}
                    ELSE IF code_actions.value.actions = <<>>
                    THEN {success(NoActionsMessage, Null, code_actions.log)}
                    ELSE IF ~apply_edits
                    THEN {success("json", code_actions.value, code_actions.log)}
                    ELSE Resolve_(code_actions)
                    : code_actions \in
                          lsp_get_organize_imports_actions(client_, fs, document)}

RenameIgnoringPrepare(connection_id, document, prepare_first) ==
    LET found == get_connection(connection_id)
        client_ == found.client
        Rename_(log) ==
            {IF ~w.ok \/ ~IsSome(w.value.edit) THEN Failed(w)
             ELSE success("Rename completed successfully", Null, w.log)
             : w \in After(log, lsp_rename(client_, fs, document))}
    IN  IF ~found.found THEN {ToolNotFound}
        ELSE IF prepare_first
        THEN UNION {Rename_(prepared.log)
                    : prepared \in lsp_prepare_rename(client_, fs, document)}
        ELSE Rename_(<<>>)

tools_lsp_rename(connection_id, document, prepare_first) ==
    LET found == get_connection(connection_id)
        client_ == found.client
        Edit_(workspace_edit) ==
            IF ~workspace_edit.ok THEN {Failed(workspace_edit)}
            ELSE IF ~IsSome(workspace_edit.value.edit)
            THEN {invalid_request(
                      <<"Rename operation is not valid at this position">>,
                      NoError, workspace_edit.log)}
            ELSE {IF applied.ok
                  THEN success("Rename completed successfully", Null, applied.log)
                  ELSE Failed(applied)
                  : applied \in lsp_apply_workspace_edit(
                                    client_, workspace_edit.value.edit[1],
                                    workspace_edit.log)}
        Rename_(log) ==
            UNION {Edit_(workspace_edit)
                   : workspace_edit \in After(log, lsp_rename(client_, fs, document))}
        Prepare_(prepared) ==
            IF Panics(prepared) THEN {Failed(prepared)}
            ELSE IF ~prepared.ok
            THEN {invalid_request(<<"Prepare rename failed: ">> \o Display(prepared.err),
                                  prepared.err, prepared.log)}
            ELSE IF prepared.value = Null
            THEN {invalid_request(
                      <<"Position is not renameable according to prepare rename">>,
                      NoError, prepared.log)}
            ELSE Rename_(prepared.log)
    IN  IF ~found.found THEN {ToolNotFound}
        ELSE IF prepare_first
        THEN UNION {Prepare_(prepared)
                    : prepared \in lsp_prepare_rename(client_, fs, document)}
        ELSE Rename_(<<>>)

\* list_resources: the connections resource and one workspace-diagnostics
\* resource for each entry the iteration over the registry visits; `n` is
\* the number of times a uri is listed.
Listed(uri, n) == [uri |-> uri, n |-> n]

DiagnosticsUri(connection_id) == <<"nvim-diagnostics://", connection_id, "/workspace">>

list_resources ==
    {Listed(<<"nvim-connections://">>, 1)}
        \cup {Listed(DiagnosticsUri(id),
                     Cardinality({e \in nvim_clients : e.id = id}))
              : id \in Keys(nvim_clients)}

\* read_resource("nvim-connections://"): one {id, target} object for each
\* entry; `n` is the number of entries that give the same object.
Pair(id, target) == [id |-> id, target |-> target]

ConnectionOf(e) ==
    Pair(e.id, IF IsSome(NeovimClient_target(e.client))
               THEN NeovimClient_target(e.client)[1] ELSE "Unknown")

read_connections ==
    {[pair |-> ConnectionOf(e),
      n |-> Cardinality({d \in nvim_clients : ConnectionOf(d) = ConnectionOf(e)})]
     : e \in nvim_clients}

NoBridgeCall ==
    [op |-> "none", id |-> None, document |-> BufferId(0), flag |-> FALSE,
     out |-> success("", Null, <<>>)]

-----------------------------------------------------------------------------
(* The server: connection lifecycle *)

\* The ids a call names: each window of each target's digest, each full
\* digest, and one id that no digest yields.
CallIds ==
    {Window(b3sum(t), s) : t \in Targets, s \in 0..ExtraWindows}
        \cup {b3sum(t) : t \in Targets} \cup {InvalidId}

Configs ==
    {[mode |-> "Directory", path |-> "/tmp"],
     [mode |-> "SingleFile", path |-> "/tmp/a.sock"],
     [mode |-> "GlobPattern", path |-> "/tmp/*.sock"]}

NoCall == Call("none", "", None, TRUE, "", "", <<>>)

\* NeovimMcpServer::new
ServerInit ==
    /\ b3 \in DigestTables
    /\ \E cfg \in Configs : socket_mode = cfg.mode /\ socket_path = cfg.path
    /\ nvim_clients = {}
    /\ running = {}
    /\ nextTask = 1
    /\ client = NeovimClient_new
    /\ last = NoCall

Init ==
    /\ ServerInit
    /\ fs = {}
    /\ config = NoConfigCall
    /\ shard = OneShard
    /\ calls = [t \in Tasks |-> Idle]
    /\ started = 0
    /\ workers = 1
    /\ bridge = NoBridgeCall

Next ==
    \/ \E t \in Targets, up \in BOOLEAN, h \in Replies : connect(t, up, h)
    \/ \E t \in Targets, up \in BOOLEAN, h \in Replies : connect_tcp(t, up, h)
    \/ \E up \in BOOLEAN, h \in Replies : initialize_auto_connection(up, h)
    \/ \E id \in CallIds : disconnect(id)

Spec == Init /\ [][Next]_vars

-----------------------------------------------------------------------------
(* The server with its connection-scoped tools *)

RequestNext ==
    \/ Next
    \/ \E op \in ScopedTools, id \in CallIds, r \in Replies : tool_request(op, id, r)

\* The tools read the registry and nothing else of the configuration, so
\* this specification starts in Directory mode.
RequestInit == Init /\ socket_mode = "Directory" /\ b3 # ShiftedWindows

RequestSpec == RequestInit /\ [][RequestNext]_vars

-----------------------------------------------------------------------------
(* One NeovimClient used directly *)

client_connect(op, target, r) ==
    /\ client' = r.client
    /\ running' = IF r.ok THEN running \cup {r.spawned} ELSE running
    /\ nextTask' = IF r.ok THEN nextTask + 1 ELSE nextTask
    /\ last' = Call(op, target, None, r.ok, r.err.kind, r.err.why,
                    IF r.attempted THEN <<Step("attempt", r.spawned)>> ELSE <<>>)
    /\ UNCHANGED <<config_vars, conc_vars, bridge_vars,
                   b3, socket_mode, socket_path, nvim_clients>>

client_connect_path(path, up) ==
    /\ nextTask <= MaxSessions
    /\ client_connect("NeovimClient::connect_path", path,
                      NeovimClient_connect_path(client, path, up, nextTask))

client_connect_tcp(address, up) ==
    /\ nextTask <= MaxSessions
    /\ client_connect("NeovimClient::connect_tcp", address,
                      NeovimClient_connect_tcp(client, address, up, nextTask))

client_disconnect ==
    LET r == NeovimClient_disconnect(client)
    IN  /\ client' = r.client
        /\ running' = running \ {r.aborted}
        /\ last' = Call("NeovimClient::disconnect", r.target, None, r.ok,
                        r.err.kind, r.err.why,
                        IF r.ok THEN <<Step("abort", r.aborted)>> ELSE <<>>)
        /\ UNCHANGED <<config_vars, conc_vars, bridge_vars,
                       b3, socket_mode, socket_path, nvim_clients, nextTask>>

client_call(method, reply) ==
    LET r == SessionCall(method, client, reply)
    IN  /\ last' = Call(method, "", None, r.ok, r.err.kind, r.err.why,
                        IF r.sent THEN <<Step("rpc", client.connection[1].task)>>
                        ELSE <<>>)
        /\ UNCHANGED <<config_vars, conc_vars, bridge_vars,
                       b3, socket_mode, socket_path, nvim_clients, running, nextTask, client>>

ClientNext ==
    \/ \E t \in Targets, up \in BOOLEAN : client_connect_path(t, up)
    \/ \E t \in Targets, up \in BOOLEAN : client_connect_tcp(t, up)
    \/ client_disconnect
    \/ \E m \in SessionMethods, r \in Replies : client_call(m, r)

\* The client reads neither the digests nor the configuration.
ClientInit ==
    /\ Init
    /\ socket_mode = "Directory"
    /\ b3 = CollidingPrefixes

ClientSpec == ClientInit /\ [][ClientNext]_vars

-----------------------------------------------------------------------------
(* ServerConfig and target discovery over a changing filesystem *)

server_vars == <<b3, socket_mode, socket_path, nvim_clients, running, nextTask,
                 client, last>>

\* ServerConfig::new: a failed resolution ends the start, the configuration
\* in force stays the one resolved before.
ConfigCall(op, provided, r) ==
    /\ fs' = r.fs
    /\ config' = [op |-> op, provided |-> provided, ok |-> r.ok, err |-> r.err,
                  path |-> IF r.ok THEN r.path ELSE config.path,
                  mode |-> IF r.ok /\ r.mode # "" THEN r.mode ELSE config.mode,
                  targets |-> {}]
    /\ UNCHANGED <<server_vars, conc_vars, bridge_vars>>

config_resolve_socket_path_and_mode(provided, home, permitted) ==
    ConfigCall("resolve_socket_path_and_mode", provided,
               resolve_socket_path_and_mode(fs, provided, home, permitted))

config_resolve_socket_path(provided, home, permitted) ==
    ConfigCall("resolve_socket_path", provided,
               resolve_socket_path(fs, provided, home, permitted))

\* find_get_all_targets(&self.socket_path, &self.socket_mode)
config_find_get_all_targets ==
    /\ config' = [config EXCEPT
                     !.op = "find_get_all_targets", !.provided = None,
                     !.ok = TRUE, !.err = "",
                     !.targets = find_get_all_targets(fs, config.path, config.mode)]
    /\ UNCHANGED <<fs, server_vars, conc_vars, bridge_vars>>

\* Editors and users make and remove files while the server runs.
HasChild(f, path) == \E e \in f : path \in Ancestors(e.path)

fs_create(path, kind) ==
    /\ ~exists(fs, path)
    /\ is_dir(fs, Parent(path)) \/ Parent(path) = <<"/">>
    /\ fs' = fs \cup {[path |-> path, kind |-> kind]}
    /\ UNCHANGED <<config, server_vars, conc_vars, bridge_vars>>

fs_remove(path) ==
    /\ exists(fs, path)
    /\ ~HasChild(fs, path)
    /\ fs' = {e \in fs : e.path # path}
    /\ UNCHANGED <<config, server_vars, conc_vars, bridge_vars>>

\* With a path given neither HOME nor the right to write is consulted.
Homes == {None, Some(Home)}

ConfigNext ==
    \/ \E q \in Provided :
           config_resolve_socket_path_and_mode(Some(q), Some(Home), TRUE)
    \/ \E h \in Homes, w \in BOOLEAN : config_resolve_socket_path_and_mode(None, h, w)
    \/ \E q \in Provided : config_resolve_socket_path(Some(q), Some(Home), TRUE)
    \/ \E h \in Homes, w \in BOOLEAN : config_resolve_socket_path(None, h, w)
    \/ config_find_get_all_targets
    \/ \E p \in Paths, k \in {"socket", "file", "dir"} :
           k \in MayBe[p] /\ fs_create(p, k)
    \/ \E p \in Paths : fs_remove(p)

ConfigInit ==
    /\ Init
    /\ socket_mode = "Directory"
    /\ b3 = CollidingPrefixes

ConfigSpec == ConfigInit /\ [][ConfigNext]_vars

-----------------------------------------------------------------------------
(* Tool calls of concurrent tasks. A call takes one step per registry access
   and per await point. DashMap::get returns a Ref that holds the read lock
   of the key's shard until it is dropped; get_mut, insert and remove take
   the shard's write lock, which waits for every Ref into that shard. *)

\* No other call holds a Ref into the shard of `id`. A call's own Ref is
\* dropped before it writes: no tool writes while it holds one.
CanWrite(t, id) ==
    \A u \in Tasks \ {t} :
        IsSome(calls[u].guard) => shard[calls[u].guard[1]] # shard[id]

\* The shard's lock is a blocking lock: a call that reaches get_mut, insert
\* or remove while another call holds a Ref into the shard parks the worker
\* thread that runs it until the Ref is dropped.
Parked(t) ==
    /\ calls[t].pc \in {"disconnect_old", "insert", "remove"}
    /\ ~CanWrite(t, calls[t].id)

\* #[tokio::main]: tasks (tool calls and the sessions' io tasks) run on the
\* runtime's worker threads, one per core; a step needs a thread that is
\* not parked.
FreeWorker == Cardinality({t \in Tasks : Parked(t)}) < workers

\* A task starts a call.
Start == FreeWorker /\ started < MaxCalls /\ started' = started + 1

\* The call of task t returns.
Finish(t, outcome) ==
    /\ FreeWorker
    /\ calls' = [calls EXCEPT ![t] = Idle]
    /\ last' = outcome

Proceed(t, call) ==
    /\ FreeWorker
    /\ calls' = [calls EXCEPT ![t] = call]
    /\ last' = last

GenerateAndReserve(t, op, target) ==
    /\ calls[t] = Idle
    /\ Start
    /\ nvim_clients' = DashInsert(nvim_clients, generate_shorter_connection_id(target),
                                  NeovimClient_new)
    /\ Proceed(t, [Idle EXCEPT !.op = op, !.pc = "disconnect_old",
                               !.target = target,
                               !.id = generate_shorter_connection_id(target)])
    /\ UNCHANGED <<config_vars, bridge_vars, shard, workers, b3, socket_mode, socket_path, running,
                   nextTask, client>>

\* let connection_id = self.generate_shorter_connection_id(&path);
call_connect(t, op, target) ==
    /\ calls[t] = Idle
    /\ Start
    /\ Proceed(t, [Idle EXCEPT !.op = op, !.pc = "disconnect_old",
                               !.target = target,
                               !.id = generate_shorter_connection_id(target)])
    /\ UNCHANGED <<config_vars, bridge_vars, shard, workers, b3, socket_mode, socket_path,
                   nvim_clients, running, nextTask, client>>

\* if let Some(mut old_client) = self.nvim_clients.get_mut(&connection_id)
step_disconnect_old(t) ==
    LET c == calls[t]
        old == get_connection(c.id)
        dis == NeovimClient_disconnect(old.client)
    IN  /\ c.pc = "disconnect_old"
        /\ CanWrite(t, c.id)
        /\ nvim_clients' = IF old.found
                           THEN DashUpdate(nvim_clients, c.id, dis.client)
                           ELSE nvim_clients
        /\ running' = IF old.found THEN running \ {dis.aborted} ELSE running
        /\ Proceed(t, [c EXCEPT !.pc = "attempt"])
        /\ UNCHANGED <<config_vars, bridge_vars, shard, workers, started, b3, socket_mode, socket_path,
                       nextTask, client>>

\* client.connect_path(&path).await? / client.connect_tcp(&address).await?
step_attempt(t, up) ==
    LET c == calls[t]
        con == IF c.op = "connect"
               THEN NeovimClient_connect_path(NeovimClient_new, c.target, up, nextTask)
               ELSE NeovimClient_connect_tcp(NeovimClient_new, c.target, up, nextTask)
    IN  /\ c.pc = "attempt"
        /\ IF con.ok
           THEN /\ running' = running \cup {con.spawned}
                /\ nextTask' = nextTask + 1
                /\ Proceed(t, [c EXCEPT !.pc = "hook", !.session = con.spawned])
           ELSE /\ Finish(t, Call(c.op, c.target, c.id, FALSE,
                                  McpErrorFrom(con.err).code, con.err.why, <<>>))
                /\ UNCHANGED <<running, nextTask>>
        /\ UNCHANGED <<config_vars, bridge_vars, shard, workers, started, b3, socket_mode, socket_path,
                       nvim_clients, client>>

\* client.setup_diagnostics_changed_autocmd().await?: on an error the client
\* is dropped with its session; nothing aborts the io task.
step_hook(t, reply) ==
    LET c == calls[t]
        made == [connection |-> Some([target |-> c.target, task |-> c.session])]
        hook == setup_diagnostics_changed_autocmd(made, reply)
    IN  /\ c.pc = "hook"
        /\ IF hook.ok
           THEN Proceed(t, [c EXCEPT !.pc = "insert"])
           ELSE Finish(t, Call(c.op, c.target, c.id, FALSE,
                               McpErrorFrom(hook.err).code, "HookFailed", <<>>))
        /\ UNCHANGED <<config_vars, bridge_vars, shard, workers, started, b3, socket_mode, socket_path,
                       nvim_clients, running, nextTask, client>>

\* self.nvim_clients.insert(connection_id.clone(), Box::new(client));
step_insert(t) ==
    LET c == calls[t]
        made == [connection |-> Some([target |-> c.target, task |-> c.session])]
    IN  /\ c.pc = "insert"
        /\ CanWrite(t, c.id)
        /\ nvim_clients' = DashInsert(nvim_clients, c.id, made)
        /\ Finish(t, Call(c.op, c.target, c.id, TRUE, "", "", <<>>))
        /\ UNCHANGED <<config_vars, bridge_vars, shard, workers, started, b3, socket_mode, socket_path,
                       running, nextTask, client>>

\* let target = { let client = self.get_connection(&connection_id)?; ... };
\* the Ref is dropped at the end of the block.
call_disconnect(t, connection_id) ==
    LET found == get_connection(connection_id)
        target == IF IsSome(NeovimClient_target(found.client))
                  THEN NeovimClient_target(found.client)[1] ELSE "Unknown"
    IN  /\ calls[t] = Idle
        /\ Start
        /\ IF found.found
           THEN Proceed(t, [Idle EXCEPT !.op = "disconnect", !.pc = "remove",
                                        !.target = target, !.id = connection_id])
           ELSE Finish(t, Call("disconnect", "", connection_id, FALSE,
                               NotFound.code, NotFound.why, <<>>))
        /\ UNCHANGED <<config_vars, bridge_vars, shard, workers, b3, socket_mode, socket_path,
                       nvim_clients, running, nextTask, client>>

RemoveSucceedingWhenAbsent(t) ==
    LET c == calls[t]
        found == get_connection(c.id)
        dis == NeovimClient_disconnect(found.client)
    IN  /\ c.pc = "remove"
        /\ CanWrite(t, c.id)
        /\ nvim_clients' = DashRemove(nvim_clients, c.id)
        /\ running' = running \ {dis.aborted}
        /\ Finish(t, Call("disconnect", c.target, c.id, TRUE, "", "", <<>>))
        /\ UNCHANGED <<config_vars, bridge_vars, shard, workers, started, b3, socket_mode,
                       socket_path, nextTask, client>>

\* if let Some((_, mut client)) = self.nvim_clients.remove(&connection_id)
step_remove(t) ==
    LET c == calls[t]
        found == get_connection(c.id)
        dis == NeovimClient_disconnect(found.client)
    IN  /\ c.pc = "remove"
        /\ CanWrite(t, c.id)
        /\ IF found.found
           THEN /\ nvim_clients' = DashRemove(nvim_clients, c.id)
                /\ running' = running \ {dis.aborted}
                /\ Finish(t, IF dis.ok
                             THEN Call("disconnect", c.target, c.id, TRUE, "", "", <<>>)
                             ELSE Call("disconnect", c.target, c.id, FALSE,
                                       "internal_error", "DisconnectFailed", <<>>))
           ELSE /\ Finish(t, Call("disconnect", c.target, c.id, FALSE,
                                  NotFound.code, NotFound.why, <<>>))
                /\ UNCHANGED <<nvim_clients, running>>
        /\ UNCHANGED <<config_vars, bridge_vars, shard, workers, started, b3, socket_mode, socket_path,
                       nextTask, client>>

\* let client = self.get_connection(&connection_id)?; client.<method>().await
\* The Ref lives until the tool returns, so it is held while the request
\* waits for the editor's reply.
call_request(t, op, connection_id) ==
    LET found == get_connection(connection_id)
        r == SessionCall(ToolMethod(op), found.client, "ok")
    IN  /\ calls[t] = Idle
        /\ Start
        /\ IF ~found.found
           THEN Finish(t, Call(op, "", connection_id, FALSE,
                               NotFound.code, NotFound.why, <<>>))
           ELSE IF ~r.sent
           THEN Finish(t, Call(op, "", connection_id, FALSE,
                               McpErrorFrom(r.err).code, r.err.why, <<>>))
           ELSE Proceed(t, [Idle EXCEPT !.op = op, !.pc = "await",
                                        !.id = connection_id,
                                        !.guard = Some(connection_id),
                                        !.session = found.client.connection[1].task])
        /\ UNCHANGED <<config_vars, bridge_vars, shard, workers, b3, socket_mode, socket_path,
                       nvim_clients, running, nextTask, client>>

\* The editor's reply arrives through the session's io task. With the task
\* aborted the request either is never answered (no step) or ends on the
\* closed channel.
step_reply(t, reply) ==
    LET c == calls[t]
        r == SessionCall(ToolMethod(c.op), get_connection(c.id).client, reply)
    IN  /\ c.pc = "await"
        /\ IF c.session \in running
           THEN Finish(t, IF r.ok THEN Call(c.op, "", c.id, TRUE, "", "", <<>>)
                          ELSE Call(c.op, "", c.id, FALSE,
                                    McpErrorFrom(r.err).code, r.err.why, <<>>))
           ELSE Finish(t, Call(c.op, "", c.id, FALSE, "internal_error",
                               "ChannelClosed", <<>>))
        /\ UNCHANGED <<config_vars, bridge_vars, shard, workers, started, b3, socket_mode, socket_path,
                       nvim_clients, running, nextTask, client>>

ConcTools == {"exec_lua"}

\* The ids the concurrent calls name: the registered ones and one that is not.
ConcIds == Keys(nvim_clients) \cup {InvalidId}

ConcNext ==
    \/ \E t \in Tasks, target \in PathTargets : call_connect(t, "connect", target)
    \/ \E t \in Tasks, target \in TcpTargets : call_connect(t, "connect_tcp", target)
    \/ \E t \in Tasks : step_disconnect_old(t)
    \/ \E t \in Tasks, up \in BOOLEAN : step_attempt(t, up)
    \/ \E t \in Tasks, reply \in Replies : step_hook(t, reply)
    \/ \E t \in Tasks : step_insert(t)
    \/ \E t \in Tasks, id \in ConcIds : call_disconnect(t, id)
    \/ \E t \in Tasks : step_remove(t)
    \/ \E t \in Tasks, op \in ConcTools, id \in ConcIds : call_request(t, op, id)
    \/ \E t \in Tasks, reply \in Replies : step_reply(t, reply)

\* The process's hasher decides which keys share a shard.
ConcInit ==
    /\ ServerInit
    /\ socket_mode = "Directory"
    /\ b3 = CollidingPrefixes
    /\ fs = {}
    /\ config = NoConfigCall
    /\ shard \in ShardTables
    /\ calls = [t \in Tasks |-> Idle]
    /\ started = 0
    /\ workers \in 1..MaxWorkers
    /\ bridge = NoBridgeCall

ConcSpec == ConcInit /\ [][ConcNext]_vars

-----------------------------------------------------------------------------
(* The language tools over a registry and a filesystem that change *)

BridgeCall(op, connection_id, document, flag, out) ==
    /\ bridge' = [op |-> op, id |-> connection_id, document |-> document,
                  flag |-> flag, out |-> out]
    /\ UNCHANGED <<server_vars, config_vars, conc_vars>>

tool_document(op, connection_id, document) ==
    \E out \in tools_document(op, connection_id, document) :
        BridgeCall(op, connection_id, document, FALSE, out)

tool_lsp_organize_imports(connection_id, document, apply_edits) ==
    \E out \in tools_lsp_organize_imports(connection_id, document, apply_edits) :
        BridgeCall("lsp_organize_imports", connection_id, document, apply_edits, out)

tool_lsp_rename(connection_id, document, prepare_first) ==
    \E out \in tools_lsp_rename(connection_id, document, prepare_first) :
        BridgeCall("lsp_rename", connection_id, document, prepare_first, out)

\* The sessions opened while the language tools are exercised.
BridgeSessions == 1

BridgeIds == Keys(nvim_clients) \cup {InvalidId}

BridgeNext ==
    \/ \E up \in BOOLEAN, h \in Replies :
           nextTask <= BridgeSessions /\ connect("/tmp/a.sock", up, h)
    \/ \E id \in BridgeIds : disconnect(id)
    \/ \E op \in DocumentTools, id \in BridgeIds, d \in Documents :
           tool_document(op, id, d)
    \/ \E id \in BridgeIds, d \in Documents, apply_edits \in BOOLEAN :
           tool_lsp_organize_imports(id, d, apply_edits)
    \/ \E id \in BridgeIds, d \in Documents, prepare_first \in BOOLEAN :
           tool_lsp_rename(id, d, prepare_first)
    \/ fs_create(MainRs, "file")
    \/ fs_create(LinkRs, "link")
    \/ \E p \in DocPaths : fs_remove(p)

\* The language tools read the registry and the filesystem, not the
\* configuration.
BridgeInit ==
    /\ Init
    /\ socket_mode = "Directory"
    /\ b3 = CollidingPrefixes

BridgeSpec == BridgeInit /\ [][BridgeNext]_vars

-----------------------------------------------------------------------------
(* The server with its resources *)

resource_list ==
    BridgeCall("list_resources", None, BufferId(0), FALSE,
               success("json", list_resources, <<>>))

resource_read_connections ==
    BridgeCall("read_resource", None, BufferId(0), FALSE,
               success("json", read_connections, <<>>))

ResourceNext ==
    \/ Next
    \/ resource_list
    \/ resource_read_connections

ResourceInit ==
    /\ Init
    /\ socket_mode = "Directory"
    /\ b3 = CollidingPrefixes

ResourceSpec == ResourceInit /\ [][ResourceNext]_vars

-----------------------------------------------------------------------------
(* The server with the handler of its sessions' incoming messages *)

\* What the editor sends on its own: the notifications of the two hooks and
\* requests.
Incoming == {"diagnostics_changed", "lsp_attach", "ping", "other"}

HandleNotifyDroppingSession(k, name) ==
    /\ k \in running
    /\ bridge' = [op |-> "handle_notify", id |-> None, document |-> BufferId(0),
                  flag |-> FALSE, out |-> success(name, Null, <<>>)]
    /\ nvim_clients' = {e \in nvim_clients :
                            ~(IsSome(e.client.connection)
                                  /\ e.client.connection[1].task = k)}
    /\ UNCHANGED <<b3, socket_mode, socket_path, running, nextTask, client, last,
                   config_vars, conc_vars>>

\* impl Handler for NeovimHandler, run by the io task k of a session:
\* info!("handling notification: ..")
handle_notify(k, name) ==
    /\ k \in running
    /\ BridgeCall("handle_notify", None, BufferId(0), FALSE,
                  success(name, Null, <<>>))

\* "ping" => Ok(Value::from("pong")), _ => Ok(Value::Nil)
handle_request(k, name) ==
    /\ k \in running
    /\ BridgeCall("handle_request", None, BufferId(0), FALSE,
                  ToolResult(TRUE, "", <<name, IF name = "ping" THEN "pong" ELSE "nil">>,
                             NoError, Null, <<>>))

HandlerNext ==
    \/ Next
    \/ \E k \in 1..MaxSessions, name \in Incoming : handle_notify(k, name)
    \/ \E k \in 1..MaxSessions, name \in Incoming : handle_request(k, name)

HandlerSpec == ResourceInit /\ [][HandlerNext]_vars

-----------------------------------------------------------------------------
(* Vocabulary of the properties *)

Live(e) == IsSome(e.client.connection)
TargetOf(e) == e.client.connection[1].target
TaskOf(e) == e.client.connection[1].task

ConnectOps == {"connect", "connect_tcp", "initialize_auto_connection"}

\* The call just made (described by last') was a connect_or_replace of a target.
Connected == last'.op \in ConnectOps /\ last'.target # ""

\* A window is open to `target` when nothing is registered under it or the
\* session registered under it is connected to `target`.
Open(m, w, target) ==
    \/ DashGet(m, w) = {}
    \/ \E e \in DashGet(m, w) : Live(e) /\ TargetOf(e) = target

OpenStarts(m, target) ==
    {s \in 0..LastStart(b3sum(target)) : Open(m, Window(b3sum(target), s), target)}

-----------------------------------------------------------------------------
(* C1: the registry holds at most one entry per connection id, so an id maps
   to one target at a time; a successful connect_or_replace under an id that
   is already registered leaves the number of entries as it was and puts the
   new session in the place of the old one. *)
UniqueIds == \A e1, e2 \in nvim_clients : e1.id = e2.id => e1 = e2

ReplacesInPlace ==
    (Connected /\ last'.ok /\ last'.id \in Keys(nvim_clients))
        => /\ Cardinality(nvim_clients') = Cardinality(nvim_clients)
           /\ Keys(nvim_clients') = Keys(nvim_clients)
           /\ \A e \in DashGet(nvim_clients', last'.id) :
                  Live(e) /\ TargetOf(e) = last'.target /\ TaskOf(e) = nextTask

C1_OneEntryPerId == []UniqueIds /\ [][ReplacesInPlace]_vars

\* A target was reconnected under its id: the old session is gone, the new
\* one is the only entry under that id.
C1_Witness ==
    /\ last.op \in ConnectOps /\ last.ok
    /\ Len(last.steps) = 4 /\ last.steps[1].ev = "disconnect_old"
    /\ last.steps[1].n # 0
    /\ Cardinality(DashGet(nvim_clients, last.id)) = 1
    /\ Cardinality(nvim_clients) = 2

-----------------------------------------------------------------------------
(* C2: whenever target T has a session registered under id i, a successful
   connect_or_replace(T) returns i. *)
C2_ReconnectKeepsId ==
    [][(Connected /\ last'.ok)
         => \A e \in nvim_clients :
                (Live(e) /\ TargetOf(e) = last'.target) => last'.id = e.id]_vars

-----------------------------------------------------------------------------
(* C3: of two connect_or_replace calls for the same target made one directly
   after the other, the first having succeeded, the second generates the
   same id, and it fails only if the editor does not accept the connection
   or does not register the hooks. *)
C3_TwiceSameId ==
    [][(last.op \in ConnectOps /\ last.ok /\ Connected /\ last'.target = last.target)
         => /\ last'.id = last.id
            /\ last'.ok \/ last'.why \in {"ConnectionFailed", "HookFailed"}]_vars

\* The second of two successful connects of one target: it replaced a live
\* session of that target under the id it returned.
C3_Witness ==
    /\ last.op \in ConnectOps /\ last.ok /\ Len(last.steps) = 4
    /\ last.steps[1].ev = "disconnect_old" /\ last.steps[1].n = nextTask - 2
    /\ \E e \in DashGet(nvim_clients, last.id) :
           Live(e) /\ TargetOf(e) = last.target /\ TaskOf(e) = nextTask - 1

-----------------------------------------------------------------------------
(* C4: the generated id is the 7-character window of the target's digest at
   the lowest start whose window is unregistered or registered to a session
   of the same target; the full digest is generated exactly when no window
   is open. *)
C4_LowestOpenWindow ==
    [][Connected
         => LET open == OpenStarts(nvim_clients, last'.target)
                full_hash == b3sum(last'.target)
            IN  IF open = {}
                THEN last'.id = full_hash
                ELSE /\ Len(last'.id) = IdLength
                     /\ \E s \in open :
                            /\ \A s2 \in open : s <= s2
                            /\ last'.id = Window(full_hash, s)]_vars

\* A connect skipped windows held by another target and took a later one.
C4_Witness ==
    /\ last.op \in ConnectOps /\ last.ok /\ last.target \in Targets
    /\ Len(last.id) = IdLength
    /\ last.id # Window(b3sum(last.target), 0)
    /\ \E e \in DashGet(nvim_clients, Window(b3sum(last.target), 0)) :
           Live(e) /\ TargetOf(e) # last.target

\* Every window was taken: the full digest became the id.
C4_WitnessFullDigest ==
    /\ last.op \in ConnectOps /\ last.ok /\ last.target \in Targets
    /\ last.id = b3sum(last.target)

-----------------------------------------------------------------------------
(* C5: two sessions connected to distinct targets are never registered under
   one id: a connect_or_replace never generates an id under which a session
   of a different target is registered, and two distinct targets whose first
   windows differ and are both unregistered are given different ids. *)
DistinctTargetsDistinctIds ==
    \A e1, e2 \in nvim_clients :
        (Live(e1) /\ Live(e2) /\ TargetOf(e1) # TargetOf(e2)) => e1.id # e2.id

NeverTakesOthersId ==
    Connected
        => /\ \A e \in DashGet(nvim_clients, last'.id) :
                  Live(e) => TargetOf(e) = last'.target
           /\ \A e \in nvim_clients' :
                  (Live(e) /\ TargetOf(e) # last'.target) => e.id # last'.id

NoCollisionDistinctIds ==
    \A t1, t2 \in Targets :
        ( /\ t1 # t2
          /\ Window(b3sum(t1), 0) # Window(b3sum(t2), 0)
          /\ Window(b3sum(t1), 0) \notin Keys(nvim_clients)
          /\ Window(b3sum(t2), 0) \notin Keys(nvim_clients) )
            => generate_shorter_connection_id(t1) # generate_shorter_connection_id(t2)

C5_DistinctIds ==
    /\ [](DistinctTargetsDistinctIds /\ NoCollisionDistinctIds)
    /\ [][NeverTakesOthersId]_vars

\* Two targets with different first windows are connected under different ids.
C5_Witness ==
    \E e1, e2 \in nvim_clients :
        /\ Live(e1) /\ Live(e2) /\ TargetOf(e1) # TargetOf(e2)
        /\ Window(b3sum(TargetOf(e1)), 0) # Window(b3sum(TargetOf(e2)), 0)
        /\ e1.id = Window(b3sum(TargetOf(e1)), 0)
        /\ e2.id = Window(b3sum(TargetOf(e2)), 0)

-----------------------------------------------------------------------------
(* C6: connect_or_replace disconnects what is registered under the generated
   id before it does anything else (a live session's task is aborted, a
   failed disconnect is ignored), and a successful call leaves under the
   returned id exactly one entry: a connected session to the target whose
   task is new and running. *)
Position(steps, ev) == {i \in 1..Len(steps) : steps[i].ev = ev}

DisconnectsThenInstalls ==
    Connected
        => /\ \A e \in DashGet(nvim_clients, last'.id) :
                  /\ last'.steps[1] = Step("disconnect_old",
                                           IF Live(e) THEN TaskOf(e) ELSE 0)
                  /\ Live(e) => TaskOf(e) \notin running'
                  /\ \A i \in Position(last'.steps, "insert") : i > 1
           /\ DashGet(nvim_clients, last'.id) = {}
                  => Position(last'.steps, "disconnect_old") = {}
           /\ last'.ok
                  => /\ Position(last'.steps, "insert") = {Len(last'.steps)}
                     /\ \E e \in nvim_clients' :
                            /\ DashGet(nvim_clients', last'.id) = {e}
                            /\ Live(e) /\ TargetOf(e) = last'.target
                            /\ TaskOf(e) \in running' \ running
                            /\ \A o \in nvim_clients : Live(o) => TaskOf(o) # TaskOf(e)

C6_DisconnectThenReplace == [][DisconnectsThenInstalls]_vars

\* A connect found a live session under its id, aborted its task and
\* installed a new session there.
C6_Witness ==
    /\ last.op \in ConnectOps /\ last.ok /\ Len(last.steps) = 4
    /\ last.steps[1].ev = "disconnect_old" /\ last.steps[1].n # 0
    /\ last.steps[1].n \notin running
    /\ \E e \in DashGet(nvim_clients, last.id) : Live(e) /\ TaskOf(e) \in running

-----------------------------------------------------------------------------
(* C7: the disconnect tool fails with NotFound and changes nothing when the
   id is not registered; on a registered live id it succeeds, returns the
   session's target, aborts its task and removes the entry and no other; a
   disconnect of the same id directly after a successful one fails with
   NotFound. *)
DisconnectOutcome ==
    last'.op = "disconnect"
        => /\ DashGet(nvim_clients, last'.id) = {}
                  => /\ ~last'.ok /\ last'.code = "invalid_request"
                     /\ last'.why = "NotFound"
                     /\ nvim_clients' = nvim_clients /\ running' = running
           /\ \A e \in DashGet(nvim_clients, last'.id) :
                  Live(e) => /\ last'.ok /\ last'.target = TargetOf(e)
                             /\ nvim_clients' = nvim_clients \ {e}
                             /\ running' = running \ {TaskOf(e)}

SecondDisconnectFails ==
    (last.op = "disconnect" /\ last.ok /\ last'.op = "disconnect" /\ last'.id = last.id)
        => ~last'.ok /\ last'.why = "NotFound"

C7_Disconnect == [][DisconnectOutcome /\ SecondDisconnectFails]_vars

\* A live id was disconnected: its target came back, its entry is gone.
C7_Witness ==
    /\ last.op = "disconnect" /\ last.ok /\ last.target \in Targets
    /\ last.id \notin Keys(nvim_clients)
    /\ last.steps[1].n \notin running
    /\ nvim_clients # {}

-----------------------------------------------------------------------------
(* C8: a connection-scoped tool called with an id that is not registered
   fails with the not-found error and sends no request to an editor. *)
C8_UnknownIdNotFound ==
    (last.op \in ScopedTools /\ last.id \notin Keys(nvim_clients))
        => /\ ~last.ok /\ last.code = "invalid_request" /\ last.why = "NotFound"
           /\ last.steps = <<>>

\* A tool was called with the id of a digest window that is not registered
\* while other sessions are.
C8_Witness ==
    /\ last.op \in ScopedTools /\ last.why = "NotFound"
    /\ Len(last.id) = IdLength
    /\ \E e \in nvim_clients : Live(e)

-----------------------------------------------------------------------------
(* C9: connect_path and connect_tcp on a client that holds a session fail
   with the already-connected error without a connection attempt and leave
   the session, its target and its task as they were. *)
ClientConnects == {"NeovimClient::connect_path", "NeovimClient::connect_tcp"}

C9_AlreadyConnected ==
    [][(last'.op \in ClientConnects /\ IsSome(client.connection))
         => /\ ~last'.ok /\ last'.code = "Connection"
            /\ last'.why = "AlreadyConnected"
            /\ last'.steps = <<>>
            /\ client' = client /\ running' = running /\ nextTask' = nextTask]_vars

\* A second connect on a connected client was refused; the session is there.
C9_Witness ==
    /\ last.op \in ClientConnects /\ last.why = "AlreadyConnected"
    /\ IsSome(client.connection)
    /\ client.connection[1].task \in running
    /\ client.connection[1].target # last.target

-----------------------------------------------------------------------------
(* C10: a client's session changes only from none to connected by a
   successful connect and from connected to none by a successful disconnect.
   disconnect on a connected client aborts the task, returns the connected
   target and leaves no session; on a client without session it fails with
   the not-connected error; a connect directly after a successful
   disconnect fails only if the editor cannot be reached. *)
SessionCycle ==
    /\ (last'.op = "NeovimClient::disconnect" /\ IsSome(client.connection))
           => /\ last'.ok /\ last'.target = client.connection[1].target
              /\ client'.connection = None
              /\ running' = running \ {client.connection[1].task}
    /\ (last'.op = "NeovimClient::disconnect" /\ ~IsSome(client.connection))
           => /\ ~last'.ok /\ last'.code = "Connection"
              /\ last'.why = "NotConnected"
              /\ client' = client /\ running' = running
    /\ (last.op = "NeovimClient::disconnect" /\ last.ok /\ last'.op \in ClientConnects)
           => \/ last'.ok /\ IsSome(client'.connection)
                    /\ client'.connection[1].target = last'.target
              \/ ~last'.ok /\ last'.why = "ConnectionFailed"
    /\ client' # client
           => \/ /\ ~IsSome(client.connection) /\ IsSome(client'.connection)
                 /\ last'.op \in ClientConnects /\ last'.ok
              \/ /\ IsSome(client.connection) /\ ~IsSome(client'.connection)
                 /\ last'.op = "NeovimClient::disconnect" /\ last'.ok

C10_SessionCycle == [][SessionCycle]_vars

\* The client connected again after a disconnect: its first task is aborted
\* and its new one runs.
C10_Witness ==
    /\ last.op \in ClientConnects /\ last.ok
    /\ IsSome(client.connection)
    /\ client.connection[1].task = 2
    /\ running = {2}

-----------------------------------------------------------------------------
(* C11: every session operation called on a client that holds no session
   fails with a Connection-kind (not connected) error and sends nothing to
   an editor. *)
C11_NotConnectedIsConnection ==
    [][(last'.op \in SessionMethods /\ ~IsSome(client.connection))
         => /\ ~last'.ok /\ last'.code = "Connection"
            /\ last'.why = "NotConnected"
            /\ last'.steps = <<>>]_vars

-----------------------------------------------------------------------------
(* C12: concurrent operations on different connection ids never block each
   other: a call that is about to write the registry (the connect tools'
   get_mut and insert, the disconnect tool's remove) is held up only by
   calls that work on the same id, never by a request on another id that
   waits for its editor's reply. *)
Writing(t) == calls[t].pc \in {"disconnect_old", "insert", "remove"}

\* The calls whose Ref keeps task t from writing.
Blockers(t) ==
    {u \in Tasks \ {t} :
        IsSome(calls[u].guard) /\ shard[calls[u].guard[1]] = shard[calls[t].id]}

C12_DifferentIdsNeverBlock ==
    \A t \in Tasks :
        Writing(t) => \A u \in Blockers(t) : calls[u].id = calls[t].id

-----------------------------------------------------------------------------
(* C13: disconnecting a session does not wait for the requests in flight on
   it: while a request on the session awaits its reply, the disconnect
   tool's removal of that session can proceed at once (and the request is
   then abandoned). *)
C13_DisconnectDoesNotWait ==
    \A t, u \in Tasks :
        ( /\ calls[t].op = "disconnect" /\ calls[t].pc = "remove"
          /\ calls[u].pc = "await" /\ calls[u].id = calls[t].id )
            => CanWrite(t, calls[t].id)

-----------------------------------------------------------------------------
(* C14: id generation and insertion are separate steps: generating an id
   registers nothing, and the later insert goes under the id generated then
   whatever was registered in between, so two concurrent connects of one
   unregistered target can both generate before either inserts. *)
Generates(t) == calls[t] = Idle /\ calls'[t].pc = "disconnect_old"
Inserts(t) == calls[t].pc = "insert" /\ calls'[t] = Idle

GenerationReservesNothing ==
    \A t \in Tasks :
        /\ Generates(t)
               => /\ nvim_clients' = nvim_clients
                  /\ calls'[t].id = generate_shorter_connection_id(calls'[t].target)
        /\ Inserts(t)
               => \E e \in nvim_clients' :
                      /\ e.id = calls[t].id
                      /\ Live(e) /\ TargetOf(e) = calls[t].target
                      /\ TaskOf(e) = calls[t].session

C14_GenerateThenInsert == [][GenerationReservesNothing]_vars

\* Two connects of one target hold the same generated id and a session
\* each, and neither has inserted: the id is still unregistered.
C14_Witness ==
    \E t, u \in Tasks :
        /\ t # u
        /\ calls[t].pc = "insert" /\ calls[u].pc = "insert"
        /\ calls[t].target = calls[u].target
        /\ calls[t].id = calls[u].id
        /\ calls[t].session # calls[u].session
        /\ calls[t].id \notin Keys(nvim_clients)

-----------------------------------------------------------------------------
(* C15: resolve_socket_path_and_mode(Some(p)) returns p unchanged with
   SingleFile when p is an existing regular file, with Directory when p is
   an existing directory and with GlobPattern when p does not exist, and it
   leaves the filesystem as it was. *)
Resolving(op) == config' # config /\ config'.op = op

ResolvesProvided ==
    (Resolving("resolve_socket_path_and_mode") /\ IsSome(config'.provided))
        => LET p == config'.provided[1]
               returns(mode) ==
                   config'.ok /\ config'.path = p /\ config'.mode = mode
           IN  /\ fs' = fs
               /\ Kind(fs, p) = "file" => returns("SingleFile")
               /\ Kind(fs, p) = "dir" => returns("Directory")
               /\ Kind(fs, p) = "absent" => returns("GlobPattern")

-----------------------------------------------------------------------------
(* C16: resolve_socket_path_and_mode(None) always returns Directory mode
   with the platform default location, and after the call that directory
   exists. *)
DefaultLocation == Home \o <<"/", ".cache", "/", "nvim", "/", "rpc">>

C16_ResolveDefault ==
    [][(Resolving("resolve_socket_path_and_mode") /\ ~IsSome(config'.provided))
         => /\ config'.ok /\ config'.mode = "Directory"
            /\ config'.path = DefaultLocation
            /\ is_dir(fs', DefaultLocation)]_vars

-----------------------------------------------------------------------------
(* C17: resolve_socket_path(Some(p)) for a path p that does not exist
   returns p unchanged and creates it: after the call p exists and is a
   directory. *)
C17_ResolveCreates ==
    [][(Resolving("resolve_socket_path") /\ IsSome(config'.provided))
         => LET p == config'.provided[1]
            IN  ~exists(fs, p)
                    => config'.ok /\ config'.path = p /\ is_dir(fs', p)]_vars

-----------------------------------------------------------------------------
(* C18: find_get_all_targets never fails. In Directory mode it returns
   exactly the existing paths <path>/nvim-mcp.<anything>.sock, in SingleFile
   mode the configured path if it is still there and nothing otherwise, in
   GlobPattern mode the existing paths the configured path matches as a
   glob; a pattern that does not parse yields nothing. *)
Existing(f) == {q \in Paths \cup {Tmp} : exists(f, q)}

\* q is <dir>/nvim-mcp.<pieces>.sock with no separator in <pieces>.
McpSocketIn(dir, q) ==
    /\ Len(q) >= Len(dir) + 5
    /\ SubSeq(q, 1, Len(dir) + 3) = dir \o <<"/", "nvim-mcp", ".">>
    /\ SubSeq(q, Len(q) - 1, Len(q)) = <<".", "sock">>
    /\ \A i \in (Len(dir) + 2)..Len(q) : q[i] # "/"

\* What each pattern of the model stands for, written out.
Meant(pattern) ==
    CASE pattern = Tmp \o <<"/", "nvim-mcp", ".", "*", ".", "sock">> -> {Sock1}
      [] pattern = Tmp \o <<"/", "*", "/", "*", ".", "sock">> -> {SockInSub}
      [] pattern = Tmp \o <<"/", "[", "1">> -> {}
      [] OTHER -> {pattern}

FindsTargets ==
    Resolving("find_get_all_targets")
        => /\ config'.ok
           /\ config.mode = "Directory"
                  => config'.targets =
                         {q \in Existing(fs) : McpSocketIn(config.path, q)}
           /\ config.mode = "SingleFile"
                  => config'.targets =
                         IF exists(fs, config.path) THEN {config.path} ELSE {}
           /\ config.mode = "GlobPattern"
                  => config'.targets = Existing(fs) \cap Meant(config.path)

C18_FindTargets == [][FindsTargets]_vars

\* A directory was searched that holds a matching socket, a socket with
\* another name and a directory with a socket in it: the one was found.
C18_Witness ==
    /\ config.op = "find_get_all_targets" /\ config.mode = "Directory"
    /\ config.path = Tmp /\ config.targets = {Sock1}
    /\ {Sock1, SockPlain, SockInSub} \subseteq Existing(fs)

-----------------------------------------------------------------------------
(* C19: in SingleFile (locked) mode the registry never holds a session to a
   target other than the configured path. *)
C19_LockedToConfiguredTarget ==
    is_locked_mode => \A e \in nvim_clients : Live(e) => TargetOf(e) = socket_path

-----------------------------------------------------------------------------
(* C20: initialize_auto_connection in Directory and GlobPattern mode returns
   no id and leaves the registry unchanged; in SingleFile mode it works on
   the id generated for the configured path and makes one connection
   attempt, whose failure it returns as an error without a second attempt. *)
AutoConnects ==
    last'.op = "initialize_auto_connection"
        => IF socket_mode = "SingleFile"
           THEN /\ last'.target = socket_path
                /\ last'.id = generate_shorter_connection_id(socket_path)
                /\ Cardinality(Position(last'.steps, "attempt")) = 1
                /\ \A i \in Position(last'.steps, "attempt") :
                       last'.steps[i].n = 0
                           => /\ ~last'.ok /\ last'.why = "ConnectionFailed"
                              /\ i = Len(last'.steps)
                              /\ nextTask' = nextTask
                              /\ \A e \in nvim_clients' :
                                     Live(e) => e \in nvim_clients
           ELSE /\ last'.ok /\ last'.id = None /\ last'.steps = <<>>
                /\ nvim_clients' = nvim_clients /\ running' = running
                /\ nextTask' = nextTask

C20_AutoConnectOnlyLocked == [][AutoConnects]_vars

\* In locked mode the one attempt failed: the error came back, nothing was
\* installed.
C20_Witness ==
    /\ last.op = "initialize_auto_connection" /\ is_locked_mode
    /\ ~last.ok /\ last.why = "ConnectionFailed"
    /\ last.steps = <<Step("attempt", 0)>>
    /\ nvim_clients = {}

-----------------------------------------------------------------------------
(* Vocabulary of the language bridge's properties *)

\* The scripts that answer with the result envelope.
LanguageScripts ==
    {"lsp_hover.lua", "lsp_definition.lua", "lsp_client_get_code_actions.lua",
     "lsp_organize_imports.lua", "lsp_resolve_code_action.lua",
     "lsp_apply_workspace_edit.lua", "lsp_prepare_rename.lua", "lsp_rename.lua"}

BridgeTools == DocumentTools \cup {"lsp_organize_imports", "lsp_rename"}

\* The exchanges of the call with the language scripts, in order.
Scripts(log) == SelectSeq(log, LAMBDA x : x.script \in LanguageScripts)

\* An exchange in which a step of the call failed: the in-editor call, the
\* decoding of its answer, or an error envelope.
FailedExchange(x) ==
    \/ ~x.reply.rpc
    \/ x.reply.shape \in {"garbage", "number", "err_msg", "err"}

\* C21: every language-intelligence operation turns the envelope its script
\* answers with into its outcome: {result: v} into success with v,
\* {err_msg: m} into an Api error with m, {err: {message, code}} into an Lsp
\* error with that code and message; an error envelope is never a success.
C21_EnvelopeDecides ==
    (bridge.op \in DocumentTools /\ Scripts(bridge.out.log) # <<>>) =>
        LET reply == Scripts(bridge.out.log)[1].reply
        IN  /\ reply.shape = "result" =>
                bridge.out.ok /\ bridge.out.value = reply.value
            /\ reply.shape = "err_msg" =>
                ~bridge.out.ok /\ bridge.out.err = ApiError(reply.message)
            /\ reply.shape = "err" =>
                ~bridge.out.ok
                    /\ bridge.out.err = LspError(reply.code, reply.message)

\* C22: no call swallows a failure: when a step of a language tool fails
\* (the in-editor call, an error envelope, the decoding) the tool returns an
\* error.
C22_NoFailureSwallowed ==
    bridge.op \in BridgeTools =>
        \A i \in DOMAIN bridge.out.log :
            FailedExchange(bridge.out.log[i]) => ~bridge.out.ok

\* The number an McpError's text carries behind the words "LSP Error: ".
CodeIn(message) ==
    IF Len(message) >= 2 /\ message[1] = "LSP Error: " THEN Some(message[2])
    ELSE IF Len(message) >= 3 /\ message[2] = "LSP error: " THEN Some(message[3])
    ELSE None

\* C23: every failure of a step reaches the caller as an error with a
\* message; the failure of the language server ({err: {message, code}})
\* reaches it with that code, and no other failure carries such a code.
C23_FailureCarriesMessageAndCode ==
    bridge.op \in BridgeTools =>
        \A i \in DOMAIN bridge.out.log :
            LET reply == bridge.out.log[i].reply
            IN  FailedExchange(bridge.out.log[i]) =>
                    /\ ~bridge.out.ok
                    /\ bridge.out.message # <<>>
                    /\ bridge.out.message[1] # ""
                    /\ CodeIn(bridge.out.message) =
                           IF reply.shape = "err" THEN Some(reply.code) ELSE None

\* A step that is the call of a language tool on a registered connection.
ToolCall ==
    /\ bridge' # bridge
    /\ bridge'.op \in BridgeTools
    /\ bridge'.id \in Keys(nvim_clients)

ResolveFailure == ApiError("Failed to resolve path")

\* C24: a call whose document is AbsolutePath(p), with nothing at p on the
\* server's filesystem, fails with the Api error of the resolution and has
\* sent nothing to the editor.
AbsentAbsolutePathFails ==
    (ToolCall /\ bridge'.document.variant = "AbsolutePath"
         /\ ~exists(fs, bridge'.document.path)) =>
        /\ ~bridge'.out.ok
        /\ bridge'.out.err = ResolveFailure
        /\ bridge'.out.log = <<>>

C24_AbsentAbsolutePathFails == [][AbsentAbsolutePathFails]_vars

\* A tool was called on a live session with AbsolutePath(/tmp/main.rs) while
\* no such file existed.
C24_Witness ==
    /\ bridge.op = "lsp_hover"
    /\ \E e \in nvim_clients : e.id = bridge.id /\ Live(e)
    /\ bridge.document = AbsolutePath(MainRs)
    /\ ~exists(fs, MainRs)
    /\ bridge.out.err = ResolveFailure
    /\ bridge.out.log = <<>>

WorkingDirectoryQuery == "return vim.fn.getcwd()"

\* The path a path-based document names, given the exchanges of the call.
Named(document, log) ==
    IF document.variant = "AbsolutePath" THEN document.path
    ELSE join(log[1].reply.path, document.path)

\* C25: a call with ProjectRelativePath(p) asks the editor once for its
\* working directory; when that fails the call fails, otherwise the call
\* goes on as the call with AbsolutePath(cwd joined with p) does. The
\* identifier a path-based call sends is the file:// uri of the canonical
\* path (what is at it is no link) and has no version.
RelativeAsAbsolute ==
    (ToolCall /\ bridge'.op \in DocumentTools
         /\ bridge'.document.variant = "ProjectRelativePath") =>
        LET log == bridge'.out.log
        IN  IF log = <<>> THEN ~bridge'.out.ok /\ bridge'.out.err = NotConnected
            ELSE /\ log[1].script = WorkingDirectoryQuery
                 /\ \A i \in 2..Len(log) : log[i].script # WorkingDirectoryQuery
                 /\ IF FailedExchange(log[1])
                    THEN ~bridge'.out.ok /\ Len(log) = 1
                             /\ bridge'.out.err.kind = "Api"
                    ELSE \E o \in tools_document(
                                      bridge'.op, bridge'.id,
                                      AbsolutePath(Named(bridge'.document, log))) :
                             o = [bridge'.out EXCEPT !.log = Tail(log)]

CanonicalUri ==
    (ToolCall /\ bridge'.op \in DocumentTools
         /\ bridge'.document.variant # "BufferId"
         /\ Scripts(bridge'.out.log) # <<>>) =>
        LET sent == Scripts(bridge'.out.log)[1].doc
            named == Named(bridge'.document, bridge'.out.log)
        IN  /\ sent.version = None
            /\ \E q \in DocPaths :
                   /\ sent.uri = <<"file://">> \o q
                   /\ Kind(fs, q) \notin {"absent", "link"}
                   /\ q = named \/ Kind(fs, named) = "link"

C25_RelativeAsAbsolute == [][RelativeAsAbsolute /\ CanonicalUri]_vars

\* A hover on a document named relative to the editor's working directory
\* /tmp succeeded and carried file:///tmp/main.rs.
C25_Witness ==
    /\ bridge.op = "lsp_hover"
    /\ bridge.document.variant = "ProjectRelativePath"
    /\ bridge.out.ok
    /\ Len(bridge.out.log) = 2
    /\ bridge.out.log[1].reply = PathReply(Tmp)
    /\ bridge.out.log[2].doc = TextDocumentIdentifier(<<"file://">> \o MainRs, None)

\* The call is an organize-imports call whose fetch answered with a list.
Fetch == "lsp_organize_imports.lua"
Resolve == "lsp_resolve_code_action.lua"
ApplyEdit == "lsp_apply_workspace_edit.lua"

Fetched ==
    /\ bridge.op = "lsp_organize_imports"
    /\ Scripts(bridge.out.log) # <<>>
    /\ Scripts(bridge.out.log)[1].script = Fetch
    /\ Scripts(bridge.out.log)[1].reply.shape = "result"

FetchedActions == Scripts(bridge.out.log)[1].reply.value.actions

Sent(script) == {i \in DOMAIN Scripts(bridge.out.log) :
                     Scripts(bridge.out.log)[i].script = script}

\* C26: organize-imports whose fetch answers with the empty list succeeds
\* with the message that no action is available, with the flag on or off,
\* and neither resolves nor applies anything.
C26_NoActionsIsSuccess ==
    (Fetched /\ FetchedActions = <<>>) =>
        /\ bridge.out.ok
        /\ bridge.out.message = <<NoActionsMessage>>
        /\ Sent(Resolve) = {} /\ Sent(ApplyEdit) = {}

\* The fetch of a call that was to apply the edits answered with no action.
C26_Witness ==
    /\ Fetched /\ FetchedActions = <<>>
    /\ bridge.flag
    /\ bridge.out.message = <<NoActionsMessage>>

\* C27 as claimed: organize-imports whose fetch answers with a non-empty
\* list resolves the first action when it has no edit, and then returns it
\* for inspection and applies nothing (flag off) or applies its edit once
\* (flag on).
C27_ResolveThenInspectOrApply ==
    (Fetched /\ FetchedActions # <<>>) =>
        /\ IsSome(FetchedActions[1].edit) => Sent(Resolve) = {}
        /\ ~IsSome(FetchedActions[1].edit) => Sent(Resolve) = {2}
        /\ ~bridge.flag => Sent(ApplyEdit) = {}
        /\ Cardinality(Sent(ApplyEdit)) <= 1

\* The action whose edit the call is to apply, once it is known.
ResolvedAction ==
    LET s == Scripts(bridge.out.log)
    IN  IF IsSome(FetchedActions[1].edit) THEN Some(FetchedActions[1])
        ELSE IF Len(s) >= 2 /\ s[2].script = Resolve /\ s[2].reply.shape = "result"
        THEN Some(s[2].reply.value.actions[1])
        ELSE None

\* C27: organize-imports whose fetch answers with a non-empty list returns
\* that list for inspection, resolving and applying nothing, when the flag
\* is off. When the flag is on it resolves the first action if and only if
\* that has no edit (a failed resolution ends the call), then applies the
\* edit of the resolved action once, as the last exchange, or fails and
\* applies nothing when there is no edit.
C27_InspectOrResolveAndApply ==
    (Fetched /\ FetchedActions # <<>>) =>
        LET s == Scripts(bridge.out.log)
        IN  IF ~bridge.flag
            THEN /\ bridge.out.ok
                 /\ bridge.out.value.actions = FetchedActions
                 /\ Len(s) = 1
            ELSE /\ Sent(Resolve) =
                        IF IsSome(FetchedActions[1].edit) THEN {} ELSE {2}
                 /\ IF ~IsSome(ResolvedAction)
                    THEN ~bridge.out.ok /\ Sent(ApplyEdit) = {}
                    ELSE IF ~IsSome(ResolvedAction[1].edit)
                    THEN /\ ~bridge.out.ok
                         /\ bridge.out.code = "invalid_request"
                         /\ Sent(ApplyEdit) = {}
                    ELSE /\ Sent(ApplyEdit) = {Len(s)}
                         /\ s[Len(s)].edit = ResolvedAction[1].edit
                         /\ bridge.out.ok <=> ~FailedExchange(s[Len(s)])

\* The first action had no edit, was resolved to one with an edit, and that
\* edit was applied.
C27_Witness ==
    /\ Fetched /\ FetchedActions # <<>>
    /\ bridge.flag
    /\ ~IsSome(FetchedActions[1].edit)
    /\ Sent(Resolve) = {2} /\ Sent(ApplyEdit) = {3}
    /\ bridge.out.ok

\* C28: the connections resource lists the live sessions: one (id, target)
\* pair for each registered session, with that session's target, and nothing
\* else; list_resources lists the connections resource and one
\* workspace-diagnostics resource for each registered id.
ListingIsLiveSessions ==
    /\ (bridge' # bridge /\ bridge'.op = "read_resource") =>
           bridge'.out.value =
               {[pair |-> Pair(e.id, TargetOf(e)), n |-> 1]
                : e \in {d \in nvim_clients : Live(d)}}
    /\ (bridge' # bridge /\ bridge'.op = "list_resources") =>
           bridge'.out.value =
               {Listed(<<"nvim-connections://">>, 1)}
                   \cup {Listed(DiagnosticsUri(id), 1) : id \in Keys(nvim_clients)}

C28_ListingIsLiveSessions == [][ListingIsLiveSessions]_vars

\* The identifier the resolution of a call's document yields, None when the
\* resolution fails: read from the call's first exchange (BufferId, and the
\* working directory of ProjectRelativePath) and from the filesystem.
ResolutionOf(document, log, f) ==
    CASE document.variant = "BufferId" ->
             IF log # <<>> /\ ~FailedExchange(log[1])
             THEN Some(log[1].reply.doc) ELSE None
      [] document.variant = "ProjectRelativePath" ->
             IF log # <<>> /\ ~FailedExchange(log[1])
                    /\ IsSome(canonicalize(f, Named(document, log)))
             THEN Some(TextDocumentIdentifier(
                           <<"file://">> \o canonicalize(f, Named(document, log))[1],
                           None))
             ELSE None
      [] document.variant = "AbsolutePath" ->
             IF IsSome(canonicalize(f, document.path))
             THEN Some(TextDocumentIdentifier(
                           <<"file://">> \o canonicalize(f, document.path)[1], None))
             ELSE None

DiagnosticsQuery == "vim.diagnostic.get"

\* C29 as claimed: a document-scoped operation resolves its document first;
\* when the resolution fails it returns an error and runs no script, when it
\* succeeds exactly one script execution follows, with the resolved
\* identifier.
ResolveThenOneScript ==
    (ToolCall /\ bridge'.op \in DocumentTools) =>
        LET resolved == ResolutionOf(bridge'.document, bridge'.out.log, fs)
            s == Scripts(bridge'.out.log)
        IN  IF ~IsSome(resolved) THEN ~bridge'.out.ok /\ s = <<>>
            ELSE Len(s) = 1 /\ s[1].doc = resolved[1]

ResolveThenAtMostOneScript ==
    (ToolCall /\ bridge'.op \in DocumentTools) =>
        LET log == bridge'.out.log
            resolved == ResolutionOf(bridge'.document, log, fs)
            s == Scripts(log)
            live == \E e \in nvim_clients : e.id = bridge'.id /\ Live(e)
            diagnostics == {i \in DOMAIN log : log[i].script = DiagnosticsQuery}
        IN  IF ~IsSome(resolved)
            THEN /\ ~bridge'.out.ok /\ s = <<>>
                 /\ bridge'.out.err.kind \in {"Api", "Connection", "Panic"}
                 /\ Panics(bridge'.out) <=>
                        (log # <<>> /\ log[1].reply = NotAString
                             /\ bridge'.document.variant = "BufferId")
                 /\ diagnostics = {}
            ELSE /\ Len(s) <= 1
                 /\ s # <<>> => s[1] = log[Len(log)] /\ s[1].doc = resolved[1]
                 /\ diagnostics =
                        IF bridge'.op = "lsp_code_actions"
                               /\ bridge'.document.variant = "BufferId"
                        THEN {2} ELSE {}
                 /\ s = <<>> <=>
                        \/ ~live
                        \/ \E i \in diagnostics : FailedExchange(log[i])
                 /\ s = <<>> => ~bridge'.out.ok

PrepareRename == "lsp_prepare_rename.lua"
Rename == "lsp_rename.lua"

RenameSteps(prepare_first) ==
    IF prepare_first THEN <<PrepareRename, Rename, ApplyEdit>>
    ELSE <<Rename, ApplyEdit>>

\* The exchange answered {result: v} with v other than null.
Answered(x) == ~FailedExchange(x) /\ x.reply.value # Null

\* C30: a rename issues prepare-rename (only with prepare_first), rename and
\* apply-edit in this order and stops at the first step that fails: a step
\* follows only a step that answered a result other than null, the edit
\* that is applied is the one rename answered, a prepare-rename or rename
\* that answers nothing or an error ends the call with a failure, and the
\* call succeeds only when the apply, its last step, succeeded.
C30_RenameStepsInOrder ==
    (bridge.op = "lsp_rename") =>
        LET s == Scripts(bridge.out.log)
            steps == RenameSteps(bridge.flag)
        IN  /\ Len(s) <= Len(steps)
            /\ \A i \in DOMAIN s : s[i].script = steps[i]
            /\ \A i \in DOMAIN s : i < Len(s) => Answered(s[i])
            /\ \A i \in DOMAIN s :
                   s[i].script = ApplyEdit =>
                       /\ IsSome(s[i - 1].reply.value.edit)
                       /\ s[i].edit = s[i - 1].reply.value.edit
            /\ \A i \in DOMAIN s :
                   s[i].script # ApplyEdit => ~IsSome(s[i].edit)
            /\ bridge.out.ok <=>
                   Len(s) = Len(steps) /\ ~FailedExchange(s[Len(s)])
            /\ (s # <<>> /\ ~FailedExchange(s[Len(s)]) /\ ~Answered(s[Len(s)])
                    /\ s[Len(s)].script # ApplyEdit) =>
                   bridge.out.code = "invalid_request"

\* A rename with prepare_first went through its three steps.
C30_Witness ==
    /\ bridge.op = "lsp_rename"
    /\ bridge.flag
    /\ bridge.out.ok
    /\ Len(Scripts(bridge.out.log)) = 3
    /\ Scripts(bridge.out.log)[3].edit = Some("renamed")

-----------------------------------------------------------------------------
(* C31: handling a message a session's editor sends (a notification of the
   change hooks, or a request, answered "pong" for "ping" and nil
   otherwise) leaves the registry, every session in it and the io tasks as
   they were. *)

Handled ==
    /\ bridge' # bridge
    /\ bridge'.op \in {"handle_notify", "handle_request"}

HandlersInert ==
    Handled =>
        /\ nvim_clients' = nvim_clients
        /\ running' = running
        /\ client' = client
        /\ bridge'.op = "handle_request" =>
               bridge'.out.message[2] =
                   IF bridge'.out.message[1] = "ping" THEN "pong" ELSE "nil"

C31_HandlersInert == [][HandlersInert]_vars

\* A notification of the diagnostics hook was handled while a session is
\* registered.
C31_Witness ==
    /\ bridge.op = "handle_notify"
    /\ bridge.out.message = <<"diagnostics_changed">>
    /\ \E e \in nvim_clients : Live(e) /\ TaskOf(e) \in running

-----------------------------------------------------------------------------
(* C32: every entry of the registry holds a connected session that can
   serve requests: its client has a session and the session's io task
   runs. *)
C32_EveryEntryConnected ==
    \A e \in nvim_clients : Live(e) /\ TaskOf(e) \in running

-----------------------------------------------------------------------------
(* C33: a connect_or_replace that fails leaves the registry and the io
   tasks of its sessions as they were before the call, and the next
   successful connect_or_replace of the same target returns the id the
   failed call worked on. *)
FailedConnectChangesNothing ==
    (Connected /\ ~last'.ok) =>
        /\ nvim_clients' = nvim_clients
        /\ running' = running

SameIdAfterFailure ==
    (Connected /\ last'.ok /\ last.op \in ConnectOps /\ ~last.ok
         /\ last.target = last'.target) =>
        last'.id = last.id

C33_FailedConnectChangesNothing ==
    [][FailedConnectChangesNothing /\ SameIdAfterFailure]_vars

-----------------------------------------------------------------------------
(* C34: a target never has two registry entries: at most one connection id
   holds a session connected to it. *)
C34_OneEntryPerTarget ==
    \A e1, e2 \in nvim_clients :
        (Live(e1) /\ Live(e2) /\ TargetOf(e1) = TargetOf(e2)) => e1.id = e2.id

-----------------------------------------------------------------------------
(* C35: no session is orphaned: under every interleaving each io task that
   has not been aborted belongs to a session stored in the registry, or to
   the session a connect call in progress has made and is about to store. *)
Stored(k) == \E e \in nvim_clients : Live(e) /\ TaskOf(e) = k

InHand(k) ==
    \E t \in Tasks : calls[t].pc \in {"hook", "insert"} /\ calls[t].session = k

C35_NoOrphanedSession == \A k \in running : Stored(k) \/ InHand(k)

-----------------------------------------------------------------------------
(* C36: the id under which a session connected to target T is registered
   identifies a session connected to T until a call disconnects that id or
   a connect of T replaces it: no step of a call that connects another
   target puts another session under the id. *)
Acts(t) == calls'[t] # calls[t]

IdKeepsTarget ==
    \A e \in nvim_clients :
        Live(e) =>
            \/ \E d \in nvim_clients' :
                   d.id = e.id /\ Live(d) /\ TargetOf(d) = TargetOf(e)
            \/ \E t \in Tasks :
                   /\ Acts(t)
                   /\ \/ calls[t].op = "disconnect" /\ calls[t].id = e.id
                      \/ calls[t].op \in ConnectOps /\ calls[t].target = TargetOf(e)

C36_IdKeepsTarget == [][IdKeepsTarget]_vars

-----------------------------------------------------------------------------
(* C37: of two concurrent disconnect calls for the same registered live id
   that have both found the entry, the one that removes first succeeds,
   disconnects the session (its io task is aborted) and removes the entry;
   the other then fails with the not-found error and changes nothing. *)
BothFound(t, u) ==
    /\ t # u
    /\ calls[t].op = "disconnect" /\ calls[t].pc = "remove"
    /\ calls[u].op = "disconnect" /\ calls[u].pc = "remove"
    /\ calls[t].id = calls[u].id
    /\ \E e \in DashGet(nvim_clients, calls[t].id) : Live(e)

FirstRemoves ==
    \A t, u \in Tasks :
        (BothFound(t, u) /\ Acts(t)) =>
            /\ last'.op = "disconnect" /\ last'.id = calls[t].id /\ last'.ok
            /\ \A e \in DashGet(nvim_clients, calls[t].id) :
                   /\ nvim_clients' = nvim_clients \ {e}
                   /\ running' = running \ {TaskOf(e)}
            /\ calls'[u] = calls[u]

\* The other call has succeeded and the entry is gone.
OtherRemoved(u) ==
    /\ calls[u].op = "disconnect" /\ calls[u].pc = "remove"
    /\ last.op = "disconnect" /\ last.ok /\ last.id = calls[u].id
    /\ calls[u].id \notin Keys(nvim_clients)

SecondFindsNothing ==
    \A u \in Tasks :
        (OtherRemoved(u) /\ Acts(u)) =>
            /\ last'.op = "disconnect" /\ last'.id = calls[u].id /\ ~last'.ok
            /\ last'.code = NotFound.code /\ last'.why = NotFound.why
            /\ nvim_clients' = nvim_clients
            /\ running' = running

C37_OneOfTwoDisconnects == [][FirstRemoves /\ SecondFindsNothing]_vars

\* Both calls found the live entry, one has removed it and succeeded, the
\* other is about to remove.
C37_Witness ==
    \E u \in Tasks :
        /\ OtherRemoved(u)
        /\ last.target \in Targets
        /\ calls[u].target = last.target

-----------------------------------------------------------------------------
(* C38: the disconnect tool changes the registry only when it succeeds: a
   call that returns an error leaves the registry as it was. *)
FailedDisconnectChangesNothing ==
    (last'.op = "disconnect" /\ ~last'.ok) => nvim_clients' = nvim_clients

C38_FailedDisconnectChangesNothing == [][FailedDisconnectChangesNothing]_vars


(***************************************************************************)
(* C39: the editor's replies and the outcomes of the operations            *)
(***************************************************************************)

\* The call of a language tool ended as an outcome of the operation: a
\* success, or an error of one of the typed kinds.
Returned(out) ==
    \/ out.ok
    \/ out.err.kind \in {"Api", "Lsp", "Connection"}
    \/ out.err = NoError /\ out.code = "invalid_request"

\* C39: no reply of the editor makes an operation abort: whatever the
\* in-editor calls of a language tool answer (valid JSON in a string, a
\* string that does not decode, a value that is not a string, a call error)
\* the call returns a success or a typed Api/Lsp error, and never panics.
C39_NoReplyAborts ==
    bridge.op \in BridgeTools => Returned(bridge.out) /\ ~Panics(bridge.out)


(***************************************************************************)
(* C40: the registry and the calls that wait for it                        *)
(***************************************************************************)

\* The reply of the editor reaches the call of task t and the call returns.
Completes(t) == \E reply \in Replies : step_reply(t, reply)

\* The call of task t takes its access to the registry.
Accesses(t) == step_disconnect_old(t) \/ step_insert(t) \/ step_remove(t)

\* C40: the registry cannot deadlock. A request that holds a reference into
\* the registry while it awaits the editor's reply can take that reply and
\* complete, whatever the other calls do; and a call that waits for access
\* to the registry waits for a request that can complete, so no set of
\* calls waits forever.
C40_RegistryCannotDeadlock ==
    /\ \A t \in Tasks : calls[t].pc = "await" => ENABLED Completes(t)
    /\ \A t \in Tasks :
           calls[t].pc \in {"disconnect_old", "insert", "remove"} =>
               \/ ENABLED Accesses(t)
               \/ \E u \in Tasks \ {t} :
                      calls[u].pc = "await" /\ ENABLED Completes(u)

====
